---- MODULE Spec2Model ----
(***************************************************************************)
(* A model of the AI PR review action: the retry wrapper (retry.js), the   *)
(* review poster (github-poster.js), the token budget (token-budget.js)    *)
(* and the top-level run (index.js).                                       *)
(*                                                                         *)
(* Specifications:                                                         *)
(*   SpecRetry  withRetry as a state machine over the outcomes of fn       *)
(*   SpecPure   the pure functions, applied to inputs drawn by Init        *)
(*   SpecPost   postReview against a model of the platform's review list   *)
(*   SpecRun    run() from its first await to the exit of the process      *)
(***************************************************************************)
EXTENDS Integers, Sequences, FiniteSets, TLC

VARIABLES
    wr,        \* withRetry: one invocation (options, attempt, outcomes of fn, waits)
    call,      \* a pure function applied to an input: [fn, arg, res]
    reviews,   \* the platform: the PR's reviews, in the order listReviews returns them
    headSha,   \* the platform: the PR's head commit
    proc,      \* postReview: the locals and the position of each invocation
    apiLog,    \* every platform call made by postReview, in order
    rn         \* run(): position, what has failed, the exit code of the process

vars == <<wr, call, reviews, headSha, proc, apiLog, rn>>

(***************************************************************************)
(* Bounds of the model.                                                    *)
(***************************************************************************)
\* the largest maxRetries option drawn for withRetry
MaxAttempts == 3

\* the page size of listReviews (perPage, github-poster.js lines 11 and 42, is
\* 100 in the code): scaled down so that the reviews of the model span pages
perPage == 2

\* the most reviews the PR holds before the first postReview
MaxInitReviews == 2

(***************************************************************************)
(* Errors.  An error is what the code reads of it: status, statusCode,     *)
(* error.status (0 when absent: falsy, as undefined is) and code.          *)
(***************************************************************************)
MkErr(st, sc, es, cd) == [status |-> st, statusCode |-> sc, errorStatus |-> es, code |-> cd]

NoErr == MkErr(0, 0, 0, "none")

HttpErr(st) == MkErr(st, 0, 0, "none")

\* The errors fn is taken to reject with: client errors, the rate limit, server
\* errors inside and outside RETRYABLE_STATUS_CODES, network errors, and errors
\* carrying their status in statusCode or in error.status only.
Errors ==
    { HttpErr(st) : st \in {401, 422, 429, 500, 501, 502, 503, 504, 529} }
      \cup { MkErr(0, 0, 0, cd) : cd \in {"ECONNRESET", "ETIMEDOUT", "ENOTFOUND"} }
      \cup { MkErr(0, 503, 0, "none"), MkErr(0, 0, 529, "none") }

(***************************************************************************)
(* retry.js                                                                *)
(***************************************************************************)
RETRYABLE_STATUS_CODES == {429, 500, 502, 503, 529}

\* err.status || err.statusCode || (err.error && err.error.status)
StatusOf(err) ==
    IF err.status # 0 THEN err.status
    ELSE IF err.statusCode # 0 THEN err.statusCode
    ELSE err.errorStatus

isRetryableNoOverloaded(err) ==
    \/ StatusOf(err) \in {429, 500, 502, 503}
    \/ err.code = "ECONNRESET"
    \/ err.code = "ETIMEDOUT"

isRetryable(err) ==
    \/ StatusOf(err) \in RETRYABLE_STATUS_CODES
    \/ err.code = "ECONNRESET"
    \/ err.code = "ETIMEDOUT"

RECURSIVE Pow2(_)
Pow2(k) == IF k <= 0 THEN 1 ELSE 2 * Pow2(k - 1)

\* baseDelay * Math.pow(2, attempt - 1)
RetryDelay(baseDelay, attempt) == baseDelay * Pow2(attempt - 1)

\* the catch block of withRetry: rethrow, or wait and go round the loop again
RetryRethrowsOffByOne(err, attempt, maxRetries) ==
    ~isRetryable(err) \/ attempt > maxRetries

RetryRethrows(err, attempt, maxRetries) ==
    ~isRetryable(err) \/ attempt = maxRetries

Outcome(ok, err) == [ok |-> ok, err |-> err]

BaseDelays == {1000, 2000}

RetryCalls ==
    { [maxRetries |-> n, baseDelay |-> b, attempt |-> 1, state |-> "calling",
       outcomes |-> <<>>, delays |-> <<>>, thrown |-> NoErr]
      : n \in 0..MaxAttempts, b \in BaseDelays }

\* for (attempt = 1; attempt <= maxRetries; ...) { return await fn(); }
FnResolves ==
    /\ wr.state = "calling"
    /\ wr.attempt <= wr.maxRetries
    /\ wr' = [wr EXCEPT !.outcomes = Append(@, Outcome(TRUE, NoErr)),
                        !.state = "returned"]
    /\ UNCHANGED <<call, reviews, headSha, proc, apiLog, rn>>

\* fn rejects with err: the catch block
FnRejects(err) ==
    /\ wr.state = "calling"
    /\ wr.attempt <= wr.maxRetries
    /\ IF RetryRethrows(err, wr.attempt, wr.maxRetries)
       THEN wr' = [wr EXCEPT !.outcomes = Append(@, Outcome(FALSE, err)),
                             !.state = "thrown",
                             !.thrown = err]
       ELSE wr' = [wr EXCEPT !.outcomes = Append(@, Outcome(FALSE, err)),
                             !.state = "waiting",
                             !.delays = Append(@, RetryDelay(wr.baseDelay, wr.attempt))]
    /\ UNCHANGED <<call, reviews, headSha, proc, apiLog, rn>>

\* the setTimeout of the wait resolves: attempt++
TimerFires ==
    /\ wr.state = "waiting"
    /\ wr' = [wr EXCEPT !.attempt = @ + 1, !.state = "calling"]
    /\ UNCHANGED <<call, reviews, headSha, proc, apiLog, rn>>

\* the loop condition fails before any call (maxRetries < 1): the function
\* falls off its end and resolves with undefined
LoopFallsThrough ==
    /\ wr.state = "calling"
    /\ wr.attempt > wr.maxRetries
    /\ wr' = [wr EXCEPT !.state = "returned"]
    /\ UNCHANGED <<call, reviews, headSha, proc, apiLog, rn>>

NextRetry ==
    \/ FnResolves
    \/ \E err \in Errors : FnRejects(err)
    \/ TimerFires
    \/ LoopFallsThrough


(***************************************************************************)
(* The diff model (diff-parser.js): a file has a path, a status, the       *)
(* additions and deletions counts and hunks; a hunk has a header and       *)
(* changes; a change has a type, a content and, for an addition or a       *)
(* deletion, line (the new or the old line number), for a context line     *)
(* oldLine and newLine (line is absent: 0).                                *)
(***************************************************************************)
Addition(line, content) ==
    [type |-> "addition", content |-> content, line |-> line, oldLine |-> 0, newLine |-> 0]

Deletion(line, content) ==
    [type |-> "deletion", content |-> content, line |-> line, oldLine |-> 0, newLine |-> 0]

Context(oldLine, newLine, content) ==
    [type |-> "context", content |-> content, line |-> 0, oldLine |-> oldLine, newLine |-> newLine]

Hunk(header, changes) == [header |-> header, changes |-> changes]

CountType(hunks, type) ==
    LET InHunk(changes) == Cardinality({ i \in DOMAIN changes : changes[i].type = type })
        RECURSIVE Over(_)
        Over(i) == IF i > Len(hunks) THEN 0 ELSE InHunk(hunks[i].changes) + Over(i + 1)
    IN Over(1)

\* a file as parseDiff builds it: additions and deletions count its changes
File(path, status, hunks) ==
    [path |-> path, status |-> status,
     additions |-> CountType(hunks, "addition"),
     deletions |-> CountType(hunks, "deletion"),
     hunks |-> hunks, truncated |-> FALSE]

Range(seq) == { seq[i] : i \in DOMAIN seq }

Min(a, b) == IF a <= b THEN a ELSE b

(***************************************************************************)
(* github-poster.js: the pure part                                         *)
(***************************************************************************)
mapApprovalToEventAlwaysBlocks(approval, reviewMode) ==
    IF approval = "approve" THEN "APPROVE"
    ELSE IF approval = "request_changes" THEN "REQUEST_CHANGES"
    ELSE "COMMENT"

mapApprovalToEvent(approval, reviewMode) ==
    IF approval = "approve" THEN "APPROVE"
    ELSE IF approval = "request_changes"
         THEN (IF reviewMode = "can-request-changes" THEN "REQUEST_CHANGES" ELSE "COMMENT")
    ELSE "COMMENT"

\* the Set buildValidLineMap collects for one file
FileValidLinesAnyChange(file) ==
    UNION { { IF ch.type = "context" THEN ch.newLine ELSE ch.line
              : ch \in Range(file.hunks[h].changes) } : h \in DOMAIN file.hunks }

FileValidLines(file) ==
    UNION { { ch.line : ch \in { x \in Range(file.hunks[h].changes) : x.type = "addition" } }
            : h \in DOMAIN file.hunks }

\* buildValidLineMap: map.set(file.path, lines) for each file in turn, so the
\* entry of a path is the Set of the last file carrying it
buildValidLineMap(diffFiles) ==
    [ p \in { diffFiles[i].path : i \in DOMAIN diffFiles } |->
        LET last == CHOOSE i \in DOMAIN diffFiles :
                        /\ diffFiles[i].path = p
                        /\ \A j \in DOMAIN diffFiles : diffFiles[j].path = p => j <= i
        IN FileValidLines(diffFiles[last]) ]

InlineComment(c) == [path |-> c.path, line |-> c.line, side |-> "RIGHT", body |-> c.body]

RECURSIVE MapInline(_, _)
MapInline(seq, i) ==
    IF i > Len(seq) THEN <<>> ELSE <<InlineComment(seq[i])>> \o MapInline(seq, i + 1)

\* comments.filter(c => fileLines && fileLines.has(c.line))
RECURSIVE FilterValid(_, _, _)
FilterValid(comments, validLines, i) ==
    IF i > Len(comments) THEN <<>>
    ELSE (IF /\ comments[i].path \in DOMAIN validLines
             /\ comments[i].line \in validLines[comments[i].path]
          THEN <<comments[i]>> ELSE <<>>) \o FilterValid(comments, validLines, i + 1)

\* comments.filter(line is in the diff).map(to an inline comment)
buildReviewComments(comments, diffFiles) ==
    MapInline(FilterValid(comments, buildValidLineMap(diffFiles), 1), 1)

(***************************************************************************)
(* The review body is modelled as the sequence of its parts.  A part is    *)
(* its text; a part formatted from a comment carries the comment's fields. *)
(***************************************************************************)
Part(kind, text) == [kind |-> kind, text |-> text, severity |-> "", path |-> "", line |-> 0]

CommentPart(c) ==
    [kind |-> "comment", text |-> c.body, path |-> c.path, line |-> c.line,
     severity |-> IF c.severity = "critical" THEN "critical"
                  ELSE IF c.severity = "warning" THEN "warning" ELSE "suggestion"]

\* the texts of the model that contain the substring 'AI Code Review'
MarkedTexts == {"## AI Code Review", "> quoting the AI Code Review"}

\* body && body.includes('AI Code Review')
IncludesMarker(body) == \E i \in DOMAIN body : body[i].text \in MarkedTexts

buildStatusBadge(review) ==
    IF review.approval = "approve" THEN Part("badge", "APPROVED")
    ELSE IF review.approval = "request_changes" THEN Part("badge", "CHANGES REQUESTED")
    ELSE Part("badge", "NEEDS ATTENTION")

\* buildReviewBody with no file summaries, impact, tips, labels or issues:
\* the title, the badge, the summary, the severity table, the footer
buildReviewBody(review) ==
    <<Part("title", "## AI Code Review"), buildStatusBadge(review), Part("summary", review.summary)>>
      \o (IF Len(review.comments) > 0 THEN <<Part("table", "| Severity | Count |")>> ELSE <<>>)
      \o <<Part("footer", "Powered by Claude AI + Fliplet Standards")>>

RECURSIVE MapCommentParts(_, _)
MapCommentParts(seq, i) ==
    IF i > Len(seq) THEN <<>> ELSE <<CommentPart(seq[i])>> \o MapCommentParts(seq, i + 1)

formatCommentsAsBody(comments) ==
    <<Part("heading", "### Review Comments")>> \o MapCommentParts(comments, 1)

\* body + '\n\n---\n\n' + formatCommentsAsBody(review.comments)

FallbackBody(body, review, inline) ==
    body \o <<Part("rule", "---")>> \o formatCommentsAsBody(review.comments)

(***************************************************************************)
(* The platform: the reviews of the PR and its head commit.                *)
(***************************************************************************)
BOT == "github-actions[bot]"

Review(id, login, commit, body, state) ==
    [id |-> id, login |-> login, commit_id |-> commit, body |-> body, state |-> state]

\* the state the platform gives a review created with an event
StateOfEvent(event) ==
    IF event = "APPROVE" THEN "APPROVED"
    ELSE IF event = "REQUEST_CHANGES" THEN "CHANGES_REQUESTED"
    ELSE "COMMENTED"

\* listReviews({per_page, page})
Page(list, page) == SubSeq(list, (page - 1) * perPage + 1, Min(page * perPage, Len(list)))

\* reviews the PR may hold before the first run, all on an earlier commit: a
\* person's, quoting the marker; the bot's own approval; another workflow's
\* (the bot's reviews in the other states come from the runs themselves)
EarlierReviews ==
    { [login |-> "alice", body |-> <<Part("text", "> quoting the AI Code Review")>>,
       state |-> "CHANGES_REQUESTED"],
      [login |-> BOT, body |-> <<Part("title", "## AI Code Review")>>, state |-> "APPROVED"],
      [login |-> BOT, body |-> <<Part("text", "Lint passed")>>, state |-> "APPROVED"] }

InitialReviewLists ==
    { [ i \in 1..n |-> Review(i, f[i].login, "sha0", f[i].body, f[i].state) ]
      : <<n, f>> \in UNION { {n} \X [1..n -> EarlierReviews] : n \in 0..MaxInitReviews } }

(***************************************************************************)
(* github-poster.js: hasExistingReview, dismissPreviousBotReviews and      *)
(* postReview, one action per await.                                       *)
(***************************************************************************)
Procs == {1, 2}

\* the platform errors a call of postReview may meet: a validation rejection,
\* an authentication failure, a transient server error
PostErrors == { HttpErr(422), HttpErr(401), HttpErr(503) }

\* the error a pulls.get or a listReviews of postReview may meet (whatever it
\* is, nothing catches it)
ReadErrors == { HttpErr(503) }

\* the one diff postReview is given in this model
PostDiff ==
    << File("src/a.js", "modified",
            << Hunk("@@ -1,3 +1,4 @@",
                    << Context(1, 1, "x"), Deletion(2, "y"), Addition(2, "z"), Addition(3, "w") >>) >>),
       File("src/b.js", "added",
            << Hunk("@@ -0,0 +1,1 @@", << Addition(1, "v") >>) >> ) >>

Comment(path, line, severity, body) ==
    [path |-> path, line |-> line, severity |-> severity, body |-> body]

\* the verdict's comments: none; one on a context line only; one on an unknown
\* path and one on an addition line
PostCommentLists ==
    { <<>>,
      << Comment("src/a.js", 1, "warning", "c2") >>,
      << Comment("src/zz.js", 7, "suggestion", "c3"), Comment("src/b.js", 1, "critical", "c4") >> }

Approvals == {"approve", "request_changes", "comment"}

ReviewModes == {"can-request-changes", "comment-only"}

NoReview == [approval |-> "", summary |-> "", comments |-> <<>>]

NoResult == [event |-> "", commentCount |-> 0]

IdleProc ==
    [pc |-> "idle", review |-> NoReview, reviewMode |-> "", commitId |-> "",
     page |-> 0, pageItems |-> <<>>, idx |-> 0, dismissed |-> <<>>,
     event |-> "", body |-> <<>>, comments |-> <<>>, attempt |-> 0,
     result |-> NoResult, err |-> NoErr, created |-> 0, before |-> <<>>]

Finished(r) == r.pc \in {"done", "thrown"}

\* the locals of an invocation that has returned or thrown are gone; what the
\* caller sees (result or error) stays, with the commit and what was created
Leave(r, pc, result, err) ==
    [IdleProc EXCEPT !.pc = pc, !.result = result, !.err = err,
                     !.commitId = r.commitId, !.created = r.created,
                     !.before = r.before]

\* an entry of apiLog: the call, whether it resolved, the review or page it
\* names; for createReview what was sent (withComments: the request has a
\* comments field) and the status of the error it was rejected with
LogEntry(op, ok, id) ==
    [op |-> op, ok |-> ok, id |-> id, commit_id |-> "", event |-> "", body |-> <<>>,
     comments |-> <<>>, withComments |-> FALSE, status |-> 0]

CreateEntry(err, commit, event, body, comments, withComments) ==
    [op |-> "create", ok |-> (err = NoErr), id |-> 0, commit_id |-> commit, event |-> event,
     body |-> body, comments |-> comments, withComments |-> withComments, status |-> err.status]

isBotReview(r) == r.login = BOT /\ IncludesMarker(r.body)

hasVerdict(r) == r.state = "APPROVED" \/ r.state = "CHANGES_REQUESTED"

\* reviews.find(r => bot login && commit_id === commitSha && body includes marker)
isExistingOtherLogin(r, commitSha) ==
    r.login = "github-actions" /\ r.commit_id = commitSha /\ IncludesMarker(r.body)

isExisting(r, commitSha) ==
    r.login = BOT /\ r.commit_id = commitSha /\ IncludesMarker(r.body)

\* the first review at or after from that the loop of dismissPreviousBotReviews
\* dismisses, 0 when there is none left on the page
NextToDismiss(items, from) ==
    LET cand == { i \in DOMAIN items : i >= from /\ isBotReview(items[i]) /\ hasVerdict(items[i]) }
    IN IF cand = {} THEN 0 ELSE CHOOSE i \in cand : \A j \in cand : i <= j

\* (a variant whose upgrade step looks at the comments only)
PrepareUpgradesAnyVerdict(r) ==
    LET event == mapApprovalToEvent(r.review.approval, r.reviewMode)
        comments == buildReviewComments(r.review.comments, PostDiff)
    IN [r EXCEPT !.pc = "create", !.attempt = 1,
                 !.body = buildReviewBody(r.review),
                 !.comments = comments,
                 !.event = IF Len(comments) = 0 /\ event = "COMMENT"
                           THEN "APPROVE" ELSE event]

\* postReview lines 109-126: the event, the body, the inline comments, the
\* approval upgrade; then the first createReview is issued
Prepare(r) ==
    LET event == mapApprovalToEvent(r.review.approval, r.reviewMode)
        comments == buildReviewComments(r.review.comments, PostDiff)
    IN [r EXCEPT !.pc = "create", !.attempt = 1,
                 !.body = buildReviewBody(r.review),
                 !.comments = comments,
                 !.event = IF Len(comments) = 0 /\ event = "COMMENT" /\ r.review.approval = "approve"
                           THEN "APPROVE" ELSE event]

\* the for loop over a page of dismissPreviousBotReviews from index from, up
\* to its next await
DismissLoopBreaksEarly(r, from) ==
    LET k == NextToDismiss(r.pageItems, from)
    IN IF k # 0 THEN [r EXCEPT !.pc = "dismiss_call", !.idx = k]
       ELSE Prepare(r)

DismissLoop(r, from) ==
    LET k == NextToDismiss(r.pageItems, from)
    IN IF k # 0 THEN [r EXCEPT !.pc = "dismiss_call", !.idx = k]
       ELSE IF Len(r.pageItems) < perPage THEN Prepare(r)
       ELSE [r EXCEPT !.pc = "dismiss_list", !.page = @ + 1, !.pageItems = <<>>, !.idx = 0]

Log(p, entry) == apiLog' = [apiLog EXCEPT ![p] = Append(@, entry)]

\* postReview is called: runs are sequential, an invocation starts when every
\* earlier one has returned or thrown; it issues pulls.get
PostStart(p, review, reviewMode) ==
    /\ proc[p].pc = "idle"
    /\ \A q \in Procs : q < p => Finished(proc[q])
    /\ proc' = [proc EXCEPT ![p] = [IdleProc EXCEPT !.pc = "get", !.review = review,
                                                    !.reviewMode = reviewMode,
                                                    !.before = reviews]]
    /\ apiLog' = [q \in Procs |-> <<>>]
    /\ UNCHANGED <<reviews, headSha, wr, call, rn>>

\* pulls.get resolves: commitId = pr.head.sha; hasExistingReview lists page 1
GetResolves(p) ==
    /\ proc[p].pc = "get"
    /\ proc' = [proc EXCEPT ![p] = [@ EXCEPT !.pc = "dup_list", !.commitId = headSha, !.page = 1]]
    /\ Log(p, LogEntry("get", TRUE, 0))
    /\ UNCHANGED <<reviews, headSha, wr, call, rn>>

GetRejects(p, err) ==
    /\ proc[p].pc = "get"
    /\ proc' = [proc EXCEPT ![p] = Leave(@, "thrown", NoResult, err)]
    /\ Log(p, LogEntry("get", FALSE, 0))
    /\ UNCHANGED <<reviews, headSha, wr, call, rn>>

\* (a variant that dismisses the review it finds on the head commit)
DupListResolvesDismissing(p) ==
    LET r == proc[p]
        page == Page(reviews, r.page)
        found == { i \in DOMAIN page : isExisting(page[i], r.commitId) }
    IN /\ r.pc = "dup_list"
       /\ proc' = [proc EXCEPT ![p] =
                     IF found # {}
                     THEN Leave(r, "done", [event |-> "SKIPPED", commentCount |-> 0], NoErr)
                     ELSE IF Len(page) < perPage
                     THEN [r EXCEPT !.pc = "dismiss_list", !.page = 1]
                     ELSE [r EXCEPT !.page = @ + 1]]
       /\ reviews' = IF found # {}
                     THEN [reviews EXCEPT ![page[CHOOSE i \in found : TRUE].id].state = "DISMISSED"]
                     ELSE reviews
       /\ Log(p, LogEntry("list_dup", TRUE, r.page))
       /\ UNCHANGED <<headSha, wr, call, rn>>

\* hasExistingReview: listReviews resolves with a page
DupListResolves(p) ==
    LET r == proc[p]
        page == Page(reviews, r.page)
    IN /\ r.pc = "dup_list"
       /\ proc' = [proc EXCEPT ![p] =
                     IF \E i \in DOMAIN page : isExisting(page[i], r.commitId)
                     THEN Leave(r, "done", [event |-> "SKIPPED", commentCount |-> 0], NoErr)
                     ELSE IF Len(page) < perPage
                     THEN [r EXCEPT !.pc = "dismiss_list", !.page = 1]
                     ELSE [r EXCEPT !.page = @ + 1]]
       /\ Log(p, LogEntry("list_dup", TRUE, r.page))
       /\ UNCHANGED <<reviews, headSha, wr, call, rn>>

DupListRejects(p, err) ==
    /\ proc[p].pc = "dup_list"
    /\ proc' = [proc EXCEPT ![p] = Leave(@, "thrown", NoResult, err)]
    /\ Log(p, LogEntry("list_dup", FALSE, proc[p].page))
    /\ UNCHANGED <<reviews, headSha, wr, call, rn>>

\* dismissPreviousBotReviews: listReviews resolves with a page; the for loop
\* runs to its first dismissReview, or to the end of the page
DismissListResolves(p) ==
    LET r == proc[p]
    IN /\ r.pc = "dismiss_list"
       /\ proc' = [proc EXCEPT ![p] =
                     DismissLoop([r EXCEPT !.pageItems = Page(reviews, r.page)], 1)]
       /\ Log(p, LogEntry("list_dismiss", TRUE, r.page))
       /\ UNCHANGED <<reviews, headSha, wr, call, rn>>

DismissListRejects(p, err) ==
    /\ proc[p].pc = "dismiss_list"
    /\ proc' = [proc EXCEPT ![p] = Leave(@, "thrown", NoResult, err)]
    /\ Log(p, LogEntry("list_dismiss", FALSE, proc[p].page))
    /\ UNCHANGED <<reviews, headSha, wr, call, rn>>

\* dismissReview resolves: the platform marks the review dismissed (it does so
\* only for a review that is approved or changes-requested by then)
DismissResolves(p) ==
    LET r == proc[p]
        id == r.pageItems[r.idx].id
    IN /\ r.pc = "dismiss_call"
       /\ hasVerdict(reviews[id])
       /\ reviews' = [reviews EXCEPT ![id].state = "DISMISSED"]
       /\ proc' = [proc EXCEPT ![p] = DismissLoop([r EXCEPT !.dismissed = Append(@, id)], r.idx + 1)]
       /\ Log(p, LogEntry("dismiss", TRUE, id))
       /\ UNCHANGED <<headSha, wr, call, rn>>

\* dismissReview rejects: caught and logged, the loop goes on
DismissRejects(p) ==
    LET r == proc[p]
    IN /\ r.pc = "dismiss_call"
       /\ proc' = [proc EXCEPT ![p] = DismissLoop(r, r.idx + 1)]
       /\ Log(p, LogEntry("dismiss", FALSE, r.pageItems[r.idx].id))
       /\ UNCHANGED <<reviews, headSha, wr, call, rn>>

\* the platform creates the review
Created(commit, body, event) ==
    Append(reviews, Review(Len(reviews) + 1, BOT, commit, body, StateOfEvent(event)))

\* createReview with the inline comments resolves
CreateResolves(p) ==
    LET r == proc[p]
    IN /\ r.pc = "create"
       /\ reviews' = Created(r.commitId, r.body, r.event)
       /\ proc' = [proc EXCEPT ![p] =
                     Leave([r EXCEPT !.created = @ + 1], "done",
                           [event |-> r.event, commentCount |-> Len(r.comments)], NoErr)]
       /\ Log(p, CreateEntry(NoErr, r.commitId, r.event, r.body, r.comments, TRUE))
       /\ UNCHANGED <<headSha, wr, call, rn>>

\* the catch of postReview (lines 143-165) on the error withRetry threw
CatchFallsBackOnAny422(r, err) == err.status = 422

CatchFallsBack(r, err) == Len(r.comments) > 0 /\ err.status = 422

\* createReview with the inline comments rejects: withRetry (maxRetries 2)
\* waits and retries, or rethrows into the catch of postReview
CreateRejects(p, err) ==
    LET r == proc[p]
    IN /\ r.pc = "create"
       /\ proc' = [proc EXCEPT ![p] =
                     IF ~RetryRethrows(err, r.attempt, 2)
                     THEN [r EXCEPT !.pc = "create_wait"]
                     ELSE IF CatchFallsBack(r, err)
                     THEN [r EXCEPT !.pc = "fb_create", !.attempt = 1,
                                    !.body = FallbackBody(r.body, r.review, r.comments)]
                     ELSE Leave(r, "thrown", NoResult, err)]
       /\ Log(p, CreateEntry(err, r.commitId, r.event, r.body, r.comments, TRUE))
       /\ UNCHANGED <<reviews, headSha, wr, call, rn>>

\* the wait of withRetry is over: the next attempt
CreateWaitOver(p) ==
    /\ proc[p].pc \in {"create_wait", "fb_wait"}
    /\ proc' = [proc EXCEPT ![p] = [@ EXCEPT !.attempt = @ + 1,
                                             !.pc = IF @ = "create_wait" THEN "create" ELSE "fb_create"]]
    /\ UNCHANGED <<reviews, headSha, apiLog, wr, call, rn>>

\* the body-only createReview of the fallback resolves
FallbackResolves(p) ==
    LET r == proc[p]
    IN /\ r.pc = "fb_create"
       /\ reviews' = Created(r.commitId, r.body, r.event)
       /\ proc' = [proc EXCEPT ![p] =
                     Leave([r EXCEPT !.created = @ + 1], "done",
                           [event |-> r.event, commentCount |-> Len(r.comments)], NoErr)]
       /\ Log(p, CreateEntry(NoErr, r.commitId, r.event, r.body, <<>>, FALSE))
       /\ UNCHANGED <<headSha, wr, call, rn>>

\* the body-only createReview rejects: retried by withRetry, or thrown to the
\* caller of postReview
FallbackRejects(p, err) ==
    LET r == proc[p]
    IN /\ r.pc = "fb_create"
       /\ proc' = [proc EXCEPT ![p] =
                     IF ~RetryRethrows(err, r.attempt, 2)
                     THEN [r EXCEPT !.pc = "fb_wait"]
                     ELSE Leave(r, "thrown", NoResult, err)]
       /\ Log(p, CreateEntry(err, r.commitId, r.event, r.body, <<>>, FALSE))
       /\ UNCHANGED <<reviews, headSha, wr, call, rn>>

\* a new commit is pushed to the PR between two runs (a push during a run
\* matters to it only if it comes before its pulls.get resolves)
Push ==
    /\ headSha = "sha1"
    /\ \E p \in Procs : Finished(proc[p])
    /\ \E p \in Procs : proc[p].pc = "idle"
    /\ \A p \in Procs : Finished(proc[p]) \/ proc[p].pc = "idle"
    /\ headSha' = "sha2"
    /\ UNCHANGED <<reviews, proc, apiLog, wr, call, rn>>

PostStep(p) ==
    \/ GetResolves(p)
    \/ \E err \in ReadErrors : GetRejects(p, err)
    \/ DupListResolves(p)
    \/ \E err \in ReadErrors : DupListRejects(p, err)
    \/ DismissListResolves(p)
    \/ \E err \in ReadErrors : DismissListRejects(p, err)
    \/ DismissResolves(p)
    \/ DismissRejects(p)
    \/ CreateResolves(p)
    \/ \E err \in PostErrors : CreateRejects(p, err)
    \/ CreateWaitOver(p)
    \/ FallbackResolves(p)
    \/ \E err \in PostErrors : FallbackRejects(p, err)

(***************************************************************************)
(* The parts of the state a specification does not use stay at rest.       *)
(***************************************************************************)
RetryAtRest ==
    wr = [maxRetries |-> 0, baseDelay |-> 0, attempt |-> 0, state |-> "unused",
          outcomes |-> <<>>, delays |-> <<>>, thrown |-> NoErr]

PureAtRest == call = [fn |-> "unused"]

PostAtRest ==
    /\ reviews = <<>>
    /\ headSha = "sha1"
    /\ proc = [p \in Procs |-> IdleProc]
    /\ apiLog = [p \in Procs |-> <<>>]

RunAtRest == rn = [pc |-> "unused"]

(***************************************************************************)
(* SpecRetry: one invocation of withRetry.                                 *)
(***************************************************************************)
InitRetry ==
    /\ wr \in RetryCalls
    /\ PureAtRest /\ PostAtRest /\ RunAtRest

SpecRetry == InitRetry /\ [][NextRetry]_vars

(***************************************************************************)
(* SpecPost: two invocations of postReview in sequence on one PR.          *)
(***************************************************************************)
InitPost ==
    /\ reviews \in InitialReviewLists
    /\ headSha = "sha1"
    /\ proc = [p \in Procs |-> IdleProc]
    /\ apiLog = [p \in Procs |-> <<>>]
    /\ RetryAtRest /\ PureAtRest /\ RunAtRest

NextPost ==
    \/ \E p \in Procs, approval \in Approvals, mode \in ReviewModes, comments \in PostCommentLists :
         PostStart(p, [approval |-> approval, summary |-> "summary", comments |-> comments], mode)
    \/ \E p \in Procs : PostStep(p)
    \/ Push

SpecPost == InitPost /\ [][NextPost]_vars

(***************************************************************************)
(* SpecPure: one call of a pure function of github-poster.js on arguments  *)
(* drawn at the start.                                                     *)
(***************************************************************************)
MaxComments == 3

\* a modified file whose additions are line 2, deletions lines 2..4 and
\* context line 1, with and without an added file beside it
PureDiffs ==
    { << File("src/a.js", "modified",
              << Hunk("@@ -1,4 +1,2 @@",
                      << Context(1, 1, "x"), Deletion(2, "y"), Deletion(3, "u"),
                         Deletion(4, "t"), Addition(2, "z") >>) >>),
         File("src/b.js", "added",
              << Hunk("@@ -0,0 +1,1 @@", << Addition(1, "v") >>) >> ) >>,
      PostDiff }

\* comments on a context line, an addition line, a deletion line, the added
\* file and a path outside the diff
PureComments ==
    { Comment("src/a.js", 1, "warning", "on context"),
      Comment("src/a.js", 2, "critical", "on addition"),
      Comment("src/a.js", 4, "suggestion", "on deletion"),
      Comment("src/b.js", 1, "warning", "on added file"),
      Comment("src/zz.js", 1, "suggestion", "unknown path") }

PureCommentLists == UNION { [1..n -> PureComments] : n \in 0..MaxComments }

PureApprovals == Approvals \cup {"reject", ""}

PureReviewModes == ReviewModes \cup {"", "approve-only"}

PureCalls ==
    { [fn |-> "buildReviewComments", comments |-> cs, diffFiles |-> d,
       approval |-> "", reviewMode |-> "", returned |-> FALSE, comments_out |-> <<>>, event |-> ""]
      : cs \in PureCommentLists, d \in PureDiffs }
    \cup
    { [fn |-> "mapApprovalToEvent", comments |-> <<>>, diffFiles |-> <<>>,
       approval |-> a, reviewMode |-> m, returned |-> FALSE, comments_out |-> <<>>, event |-> ""]
      : a \in PureApprovals, m \in PureReviewModes }

CallBuildReviewComments ==
    /\ call.fn = "buildReviewComments" /\ ~call.returned
    /\ call' = [call EXCEPT !.returned = TRUE,
                            !.comments_out = buildReviewComments(call.comments, call.diffFiles)]
    /\ UNCHANGED <<wr, reviews, headSha, proc, apiLog, rn>>

CallMapApprovalToEvent ==
    /\ call.fn = "mapApprovalToEvent" /\ ~call.returned
    /\ call' = [call EXCEPT !.returned = TRUE,
                            !.event = mapApprovalToEvent(call.approval, call.reviewMode)]
    /\ UNCHANGED <<wr, reviews, headSha, proc, apiLog, rn>>

InitPure ==
    /\ call \in PureCalls
    /\ RetryAtRest /\ PostAtRest /\ RunAtRest

NextPure == CallBuildReviewComments \/ CallMapApprovalToEvent

SpecPure == InitPure /\ [][NextPure]_vars

(***************************************************************************)
(* token-budget.js.  Texts are strings; a cost is computed from the length *)
(* of the text the code builds.                                            *)
(***************************************************************************)
estimateTokens(text) == IF text = "" THEN 0 ELSE (Len(text) + 3) \div 4

\* the paths of the model that match one of SECURITY_SENSITIVE_PATTERNS
\* (/auth/i, /route/i)
SecurityPaths == {"src/auth.js", "routes/index.js"}

\* the paths of the model that match one of CORE_FILE_PATTERNS (/index\.js$/)
CorePaths == {"src/index.js", "routes/index.js"}

isSecurityFile(filePath) == filePath \in SecurityPaths

isCoreFile(filePath) == filePath \in CorePaths

filePriority(file) ==
    file.additions + file.deletions
      + (IF isSecurityFile(file.path) THEN 1000 ELSE 0)
      + (IF isCoreFile(file.path) THEN 500 ELSE 0)

\* [...files].sort((a, b) => filePriority(b) - filePriority(a)): descending,
\* files of equal priority in their input order
sortByPriority(files) ==
    LET Before(i, j) == \/ filePriority(files[i]) > filePriority(files[j])
                        \/ filePriority(files[i]) = filePriority(files[j]) /\ i < j
        Rank(i) == Cardinality({ j \in DOMAIN files : Before(j, i) }) + 1
    IN [ k \in 1..Len(files) |-> files[CHOOSE i \in DOMAIN files : Rank(i) = k] ]

statusLabel(file) ==
    IF file.status # "" /\ file.status # "modified" THEN " [" \o file.status \o "]" ELSE ""

ChangeText(change) ==
    (IF change.type = "addition" THEN "+"
     ELSE IF change.type = "deletion" THEN "-" ELSE " ") \o change.content \o "\n"

RECURSIVE ChangesText(_, _)
ChangesText(changes, i) ==
    IF i > Len(changes) THEN "" ELSE ChangeText(changes[i]) \o ChangesText(changes, i + 1)

\* hunk.header + '\n' and one line per change
HunkText(hunk) == hunk.header \o "\n" \o ChangesText(hunk.changes, 1)

RECURSIVE HunksForPrompt(_, _)
HunksForPrompt(hunks, i) ==
    IF i > Len(hunks) THEN "" ELSE HunkText(hunks[i]) \o "\n" \o HunksForPrompt(hunks, i + 1)

formatFileForPrompt(file) ==
    "### " \o file.path \o statusLabel(file)
           \o " (+" \o ToString(file.additions) \o "/-" \o ToString(file.deletions) \o ")\n"
           \o HunksForPrompt(file.hunks, 1)

null == [null |-> TRUE]

\* (a variant of the loop that goes on after a hunk that does not fit)
RECURSIVE KeepHunksFitting(_, _, _)
KeepHunksFitting(hunks, i, remaining) ==
    IF i > Len(hunks) THEN <<>>
    ELSE LET hunkTokens == estimateTokens(HunkText(hunks[i]))
         IN IF hunkTokens <= remaining
            THEN <<hunks[i]>> \o KeepHunksFitting(hunks, i + 1, remaining - hunkTokens)
            ELSE KeepHunksFitting(hunks, i + 1, remaining)

\* the loop of truncateFile: the first hunks that fit, up to the first that does not
RECURSIVE KeepHunks(_, _, _)
KeepHunks(hunks, i, remaining) ==
    IF i > Len(hunks) THEN <<>>
    ELSE LET hunkTokens == estimateTokens(HunkText(hunks[i]))
         IN IF hunkTokens <= remaining
            THEN <<hunks[i]>> \o KeepHunks(hunks, i + 1, remaining - hunkTokens)
            ELSE <<>>

truncateFile(file, maxTokens) ==
    LET headerTokens == estimateTokens("### " \o file.path \o statusLabel(file) \o " (truncated)\n")
        remaining == maxTokens - headerTokens
        truncatedHunks == KeepHunks(file.hunks, 1, remaining)
    IN IF remaining <= 0 THEN null
       ELSE IF Len(truncatedHunks) = 0 THEN null
       ELSE [file EXCEPT !.hunks = truncatedHunks, !.truncated = TRUE]

\* what one turn of the loop of truncateDiff does with a file that does not fit
Partial(file, maxTokens, included, currentTokens) ==
    LET remaining == maxTokens - currentTokens
        truncated == IF remaining > 200 THEN truncateFile(file, remaining) ELSE null
    IN IF truncated = null
       THEN [included |-> included, currentTokens |-> currentTokens]
       ELSE [included |-> Append(included, truncated),
             currentTokens |-> currentTokens + estimateTokens(formatFileForPrompt(truncated))]

RECURSIVE ScanBreaks(_, _, _, _, _)
ScanBreaks(sorted, i, maxTokens, included, currentTokens) ==
    IF i > Len(sorted) THEN [included |-> included, currentTokens |-> currentTokens]
    ELSE LET fileTokens == estimateTokens(formatFileForPrompt(sorted[i]))
         IN IF currentTokens + fileTokens <= maxTokens
            THEN ScanBreaks(sorted, i + 1, maxTokens, Append(included, sorted[i]),
                            currentTokens + fileTokens)
            ELSE Partial(sorted[i], maxTokens, included, currentTokens)

\* for (const file of sorted) { ... continue; }
RECURSIVE Scan(_, _, _, _, _)
Scan(sorted, i, maxTokens, included, currentTokens) ==
    IF i > Len(sorted) THEN [included |-> included, currentTokens |-> currentTokens]
    ELSE LET fileTokens == estimateTokens(formatFileForPrompt(sorted[i]))
         IN IF currentTokens + fileTokens <= maxTokens
            THEN Scan(sorted, i + 1, maxTokens, Append(included, sorted[i]),
                      currentTokens + fileTokens)
            ELSE LET after == Partial(sorted[i], maxTokens, included, currentTokens)
                 IN Scan(sorted, i + 1, maxTokens, after.included, after.currentTokens)

truncateDiff(files, maxTokens) ==
    LET end == Scan(sortByPriority(files), 1, maxTokens, <<>>, 0)
    IN [files |-> end.included,
        totalFiles |-> Len(files),
        includedFiles |-> Len(end.included),
        truncated |-> Len(end.included) < Len(files),
        estimatedTokens |-> end.currentTokens]

(***************************************************************************)
(* SpecBudget: one call of truncateDiff on a file list and a budget drawn  *)
(* at the start.                                                           *)
(***************************************************************************)
MaxFiles == 3

RECURSIVE Repeat(_, _)
Repeat(s, n) ==
    IF n = 0 THEN ""
    ELSE IF n % 2 = 0 THEN LET half == Repeat(s, n \div 2) IN half \o half
    ELSE s \o Repeat(s, n - 1)

\* n hunks of one added line of len characters each
RECURSIVE AddedHunks(_, _)
AddedHunks(n, len) ==
    IF n = 0 THEN <<>>
    ELSE AddedHunks(n - 1, len) \o << Hunk("@@ -1,1 +1,1 @@", << Addition(n, Repeat("x", len)) >>) >>

\* one hunk of one added line of lens[i] characters for each i
MixedHunks(lens) ==
    [ i \in DOMAIN lens |-> Hunk("@@ -1,1 +1,1 @@", << Addition(i, Repeat("x", lens[i])) >>) ]

\* a file of 20 hunks, 912 estimated tokens; three files of 16 to 18 tokens,
\* one of them security-sensitive; a core file of 116 tokens; two files with a
\* hunk of 305 tokens among hunks of 10 tokens
BudgetFiles ==
    { File("src/huge.js", "modified", AddedHunks(20, 162)),
      File("src/mixed.js", "modified", MixedHunks(<<20, 1200, 20>>)),
      File("src/bigfirst.js", "modified", MixedHunks(<<1200, 20>>)),
      File("src/s1.js", "modified", AddedHunks(1, 20)),
      File("src/s2.js", "added", AddedHunks(1, 20)),
      File("src/auth.js", "modified", AddedHunks(1, 20)),
      File("src/index.js", "modified", AddedHunks(2, 200)) }

\* the lists of at most MaxFiles files of distinct paths, in every order
BudgetFileLists ==
    UNION { { fs \in [1..n -> BudgetFiles] : \A i, j \in 1..n : i # j => fs[i] # fs[j] }
            : n \in 0..MaxFiles }

Budgets == {130, 200, 232, 250, 276, 1000}

NoBudgetResult ==
    [files |-> <<>>, totalFiles |-> 0, includedFiles |-> 0, truncated |-> FALSE,
     estimatedTokens |-> 0]

BudgetCalls ==
    { [fn |-> "truncateDiff", files |-> fs, maxTokens |-> b, returned |-> FALSE,
       result |-> NoBudgetResult] : fs \in BudgetFileLists, b \in Budgets }

CallTruncateDiff ==
    /\ call.fn = "truncateDiff" /\ ~call.returned
    /\ call' = [call EXCEPT !.returned = TRUE,
                            !.result = truncateDiff(call.files, call.maxTokens)]
    /\ UNCHANGED <<wr, reviews, headSha, proc, apiLog, rn>>

InitBudget ==
    /\ call \in BudgetCalls
    /\ RetryAtRest /\ PostAtRest /\ RunAtRest

NextBudget == CallTruncateDiff

SpecBudget == InitBudget /\ [][NextBudget]_vars

(***************************************************************************)
(* index.js: run() and the catch at top level.  SpecRun is one process:    *)
(* run() from its start to the exit of the process.                        *)
(***************************************************************************)
ReviewMaxRetries == 3

TriageMaxRetries == 2

\* an Error that carries no status and no code ('Invalid response structure',
\* 'ANTHROPIC_API_KEY environment variable is not set')
PlainError == MkErr(0, 0, 0, "Error")

RunErrors == { HttpErr(401), HttpErr(404), HttpErr(429), HttpErr(503), PlainError }

\* what run() reads of its environment and of the diff: PR_NUMBER parses,
\* PR_TITLE and PR_BASE are given, the diff has no reviewable file, fewer
\* changed lines than the threshold or enough, the triage pass is due
RunInputs ==
    { [hasPr |-> h, hasMeta |-> m, files |-> f, shouldTriage |-> t]
      : h \in BOOLEAN, m \in BOOLEAN, f \in {"none", "few", "enough"}, t \in BOOLEAN }

RunStates ==
    { [pc |-> "start", in |-> i, attempt |-> 0, err |-> NoErr, failedAt |-> "",
       logged |-> "", exited |-> FALSE, exitCode |-> 0] : i \in RunInputs }

\* run().catch(err => { console.error(...); process.exit(0); })
ExitCodeOfCatchNonZero(err) == 1

ExitCodeOfCatch(err) == 0

\* a rejected await inside run(): the promise of run() rejects with err
Reject(r, err) == [r EXCEPT !.pc = "rejected", !.err = err, !.failedAt = r.pc]

RunStart ==
    /\ rn.pc = "start"
    /\ rn' = [rn EXCEPT !.pc = IF ~rn.in.hasPr THEN "returned"
                               ELSE IF ~rn.in.hasMeta THEN "get_meta" ELSE "get_diff"]
    /\ UNCHANGED <<wr, call, reviews, headSha, proc, apiLog>>

MetaResolves ==
    /\ rn.pc = "get_meta"
    /\ rn' = [rn EXCEPT !.pc = "get_diff"]
    /\ UNCHANGED <<wr, call, reviews, headSha, proc, apiLog>>

MetaRejects(err) ==
    /\ rn.pc = "get_meta"
    /\ rn' = Reject(rn, err)
    /\ UNCHANGED <<wr, call, reviews, headSha, proc, apiLog>>

\* the diff arrives: parse, filter, the two early returns
DiffResolves ==
    /\ rn.pc = "get_diff"
    /\ rn' = [rn EXCEPT !.pc = IF rn.in.files = "enough" THEN "context" ELSE "returned"]
    /\ UNCHANGED <<wr, call, reviews, headSha, proc, apiLog>>

DiffRejects(err) ==
    /\ rn.pc = "get_diff"
    /\ rn' = Reject(rn, err)
    /\ UNCHANGED <<wr, call, reviews, headSha, proc, apiLog>>

\* fetchFullFileContext catches the error of each getContent; then the budget
ContextDone ==
    /\ rn.pc = "context"
    /\ rn' = [rn EXCEPT !.pc = IF rn.in.shouldTriage THEN "triage" ELSE "review",
                        !.attempt = 1]
    /\ UNCHANGED <<wr, call, reviews, headSha, proc, apiLog>>

TriageResolves ==
    /\ rn.pc = "triage"
    /\ rn' = [rn EXCEPT !.pc = "review", !.attempt = 1]
    /\ UNCHANGED <<wr, call, reviews, headSha, proc, apiLog>>

\* the triage call rejects: withRetry rethrows or goes round again
TriageRejects(err) ==
    /\ rn.pc = "triage"
    /\ rn' = IF RetryRethrows(err, rn.attempt, TriageMaxRetries)
             THEN Reject(rn, err)
             ELSE [rn EXCEPT !.attempt = @ + 1]
    /\ UNCHANGED <<wr, call, reviews, headSha, proc, apiLog>>

ReviewResolves ==
    /\ rn.pc = "review"
    /\ rn' = [rn EXCEPT !.pc = "post", !.attempt = 0]
    /\ UNCHANGED <<wr, call, reviews, headSha, proc, apiLog>>

\* the review call rejects, or its response does not parse
ReviewRejects(err) ==
    /\ rn.pc = "review"
    /\ rn' = IF RetryRethrows(err, rn.attempt, ReviewMaxRetries)
             THEN Reject(rn, err)
             ELSE [rn EXCEPT !.attempt = @ + 1]
    /\ UNCHANGED <<wr, call, reviews, headSha, proc, apiLog>>

\* postReview returns, SKIPPED or posted
PostReturns ==
    /\ rn.pc = "post"
    /\ rn' = [rn EXCEPT !.pc = "returned"]
    /\ UNCHANGED <<wr, call, reviews, headSha, proc, apiLog>>

\* postReview throws, after its retries and its fallback
PostThrows(err) ==
    /\ rn.pc = "post"
    /\ rn' = Reject(rn, err)
    /\ UNCHANGED <<wr, call, reviews, headSha, proc, apiLog>>

TopLevelCatch ==
    /\ rn.pc = "rejected"
    /\ rn' = [rn EXCEPT !.pc = "exited", !.logged = "AI Review failed:",
                        !.exited = TRUE, !.exitCode = ExitCodeOfCatch(rn.err)]
    /\ UNCHANGED <<wr, call, reviews, headSha, proc, apiLog>>

\* run() resolved: nothing is left to do and the process ends
RunReturns ==
    /\ rn.pc = "returned"
    /\ rn' = [rn EXCEPT !.pc = "exited", !.exited = TRUE, !.exitCode = 0]
    /\ UNCHANGED <<wr, call, reviews, headSha, proc, apiLog>>

InitRun ==
    /\ rn \in RunStates
    /\ RetryAtRest /\ PureAtRest /\ PostAtRest

NextRun ==
    \/ RunStart
    \/ MetaResolves
    \/ \E err \in RunErrors : MetaRejects(err)
    \/ DiffResolves
    \/ \E err \in RunErrors : DiffRejects(err)
    \/ ContextDone
    \/ TriageResolves
    \/ \E err \in RunErrors : TriageRejects(err)
    \/ ReviewResolves
    \/ \E err \in RunErrors : ReviewRejects(err)
    \/ PostReturns
    \/ \E err \in RunErrors : PostThrows(err)
    \/ TopLevelCatch
    \/ RunReturns

SpecRun == InitRun /\ [][NextRun]_vars

(***************************************************************************)
(* SpecPriority: filePriority and the sort of truncateDiff on two files    *)
(* drawn at the start.                                                     *)
(***************************************************************************)
\* one hunk of n added lines
VolumeHunks(n) ==
    << Hunk("@@ -0,0 +1 @@", [ i \in 1..n |-> Addition(i, "x") ]) >>

\* a security-sensitive file, a core file, a file that is both and a file
\* that is neither
PriorityPaths == {"src/auth.js", "src/index.js", "routes/index.js", "src/utils.js"}

\* changed lines of a file: a few, more than the core bonus, more than the
\* security bonus
Volumes == {3, 600, 1200}

PriorityCalls ==
    { [fn |-> "filePriority",
       files |-> << File(ps[1], "modified", VolumeHunks(va)),
                    File(ps[2], "modified", VolumeHunks(vb)) >>,
       returned |-> FALSE, priorities |-> <<>>, sorted |-> <<>>]
      : ps \in { q \in PriorityPaths \X PriorityPaths : q[1] # q[2] },
        va \in Volumes, vb \in Volumes }

CallFilePriority ==
    /\ call.fn = "filePriority" /\ ~call.returned
    /\ call' = [call EXCEPT !.returned = TRUE,
                            !.priorities = [ i \in DOMAIN call.files |-> filePriority(call.files[i]) ],
                            !.sorted = sortByPriority(call.files)]
    /\ UNCHANGED <<wr, reviews, headSha, proc, apiLog, rn>>

InitPriority ==
    /\ call \in PriorityCalls
    /\ RetryAtRest /\ PostAtRest /\ RunAtRest

NextPriority == CallFilePriority

SpecPriority == InitPriority /\ [][NextPriority]_vars

(***************************************************************************)
(* diff-parser.js.  A text is the sequence of its characters, so that what *)
(* parseDiff reads of a line (its prefix, its digits) is computed.         *)
(***************************************************************************)
\* line.startsWith(prefix)
StartsWith(line, prefix) ==
    Len(line) >= Len(prefix) /\ SubSeq(line, 1, Len(prefix)) = prefix

\* line.slice(n)
Slice(line, n) == SubSeq(line, n + 1, Len(line))

\* diffText.split('\n')
Split(text) ==
    LET breaks == { i \in DOMAIN text : text[i] = "\n" } \cup {0, Len(text) + 1}
        Nth(k) == CHOOSE p \in breaks : Cardinality({ q \in breaks : q < p }) = k
    IN [ k \in 1..(Cardinality(breaks) - 1) |-> SubSeq(text, Nth(k - 1) + 1, Nth(k) - 1) ]

Digits == <<"0", "1", "2", "3", "4", "5", "6", "7", "8", "9">>

IsDigit(c) == \E d \in DOMAIN Digits : Digits[d] = c

DigitValue(c) == (CHOOSE d \in DOMAIN Digits : Digits[d] = c) - 1

\* parseInt(digits, 10)
RECURSIVE parseInt(_)
parseInt(digits) ==
    IF Len(digits) = 0 THEN 0
    ELSE 10 * parseInt(SubSeq(digits, 1, Len(digits) - 1)) + DigitValue(digits[Len(digits)])

\* String(n), for n below 100
DecimalText(n) ==
    IF n < 10 THEN << Digits[n + 1] >> ELSE << Digits[(n \div 10) + 1], Digits[(n % 10) + 1] >>

\* the index of the last character of the run of digits that starts at i
\* (i - 1 when line[i] is no digit)
RECURSIVE DigitsEnd(_, _)
DigitsEnd(line, i) ==
    IF i <= Len(line) /\ IsDigit(line[i]) THEN DigitsEnd(line, i + 1) ELSE i - 1

\* (\d+)(?:,(\d+))? from index i: whether it matches, the first number and
\* the index of the last character matched
NumberPair(line, i) ==
    LET e1 == DigitsEnd(line, i)
        e2 == IF e1 + 1 <= Len(line) /\ line[e1 + 1] = "," THEN DigitsEnd(line, e1 + 2) ELSE e1
    IN [ok |-> e1 >= i,
        first |-> IF e1 >= i THEN parseInt(SubSeq(line, i, e1)) ELSE 0,
        end |-> IF e2 >= e1 + 2 THEN e2 ELSE e1]

\* line.match(/^@@ -(\d+)(?:,(\d+))? \+(\d+)(?:,(\d+))? @@(.*)/)
hunkMatch(line) ==
    LET old == NumberPair(line, 5)
        new == NumberPair(line, old.end + 3)
    IN IF /\ StartsWith(line, <<"@", "@", " ", "-">>)
          /\ old.ok
          /\ StartsWith(Slice(line, old.end), <<" ", "+">>)
          /\ new.ok
          /\ StartsWith(Slice(line, new.end), <<" ", "@", "@">>)
       THEN [ok |-> TRUE, oldStart |-> old.first, newStart |-> new.first]
       ELSE [ok |-> FALSE, oldStart |-> 0, newStart |-> 0]

\* the variables of parseDiff; currentFile is an index into files and
\* currentHunk a file and a hunk index, 0 for null
ParseStart ==
    [files |-> <<>>, currentFile |-> 0, currentHunk |-> <<0, 0>>,
     oldLine |-> 0, newLine |-> 0, pendingStatus |-> "modified"]

\* currentHunk.changes.push(change); currentFile.additions++ / deletions++
PushChange(st, change, adds, dels) ==
    LET f == st.currentHunk[1]
        h == st.currentHunk[2]
        pushed == [st.files EXCEPT ![f].hunks[h].changes = Append(@, change)]
    IN [pushed EXCEPT ![st.currentFile].additions = @ + adds,
                      ![st.currentFile].deletions = @ + dels]

ResetStatusOnly(st) == [st EXCEPT !.pendingStatus = "modified"]

\* 'diff --git': reset all per-file state
ResetFileState(st) ==
    [st EXCEPT !.currentFile = 0, !.currentHunk = <<0, 0>>, !.pendingStatus = "modified"]

\* one turn of the loop of parseDiff
ParseLine(st, line) ==
    IF StartsWith(line, <<"d", "i", "f", "f", " ", "-", "-", "g", "i", "t">>)
    THEN ResetFileState(st)
    ELSE IF StartsWith(line, <<"n", "e", "w", " ", "f", "i", "l", "e", " ", "m", "o", "d", "e">>) THEN [st EXCEPT !.pendingStatus = "added"]
    ELSE IF StartsWith(line, <<"d", "e", "l", "e", "t", "e", "d", " ", "f", "i", "l", "e", " ", "m", "o", "d", "e">>) THEN [st EXCEPT !.pendingStatus = "deleted"]
    ELSE IF StartsWith(line, <<"r", "e", "n", "a", "m", "e", " ", "f", "r", "o", "m", " ">>) THEN [st EXCEPT !.pendingStatus = "renamed"]
    ELSE IF StartsWith(line, <<"r", "e", "n", "a", "m", "e", " ", "t", "o", " ">>) THEN st
    ELSE IF StartsWith(line, <<"-", "-", "-", " ", "/", "d", "e", "v", "/", "n", "u", "l", "l">>) THEN [st EXCEPT !.pendingStatus = "added"]
    ELSE IF StartsWith(line, <<"-", "-", "-", " ">>) THEN st
    ELSE IF StartsWith(line, <<"+", "+", "+", " ", "/", "d", "e", "v", "/", "n", "u", "l", "l">>) THEN [st EXCEPT !.pendingStatus = "deleted"]
    ELSE IF StartsWith(line, <<"+", "+", "+", " ", "b", "/">>)
    THEN [st EXCEPT !.files = Append(@, [path |-> Slice(line, 6), status |-> st.pendingStatus,
                                         hunks |-> <<>>, additions |-> 0, deletions |-> 0,
                                         truncated |-> FALSE]),
                    !.currentFile = Len(st.files) + 1]
    ELSE IF hunkMatch(line).ok /\ st.currentFile # 0
    THEN [st EXCEPT !.oldLine = hunkMatch(line).oldStart,
                    !.newLine = hunkMatch(line).newStart,
                    !.files[st.currentFile].hunks = Append(@, Hunk(line, <<>>)),
                    !.currentHunk = <<st.currentFile, Len(st.files[st.currentFile].hunks) + 1>>]
    ELSE IF st.currentHunk # <<0, 0>> /\ st.currentFile # 0
    THEN IF StartsWith(line, <<"+">>)
         THEN [st EXCEPT !.files = PushChange(st, Addition(st.newLine, Slice(line, 1)), 1, 0),
                         !.newLine = @ + 1]
         ELSE IF StartsWith(line, <<"-">>)
         THEN [st EXCEPT !.files = PushChange(st, Deletion(st.oldLine, Slice(line, 1)), 0, 1),
                         !.oldLine = @ + 1]
         ELSE IF StartsWith(line, <<" ">>)
         THEN [st EXCEPT !.files = PushChange(st, Context(st.oldLine, st.newLine, Slice(line, 1)), 0, 0),
                         !.oldLine = @ + 1, !.newLine = @ + 1]
         ELSE st
    ELSE st

RECURSIVE ParseLines(_, _, _)
ParseLines(st, lines, i) ==
    IF i > Len(lines) THEN st ELSE ParseLines(ParseLine(st, lines[i]), lines, i + 1)

\* a hunk of parseDiff has a context field too (the text after the second
\* @@, trimmed), which nothing reads; the model leaves it out
parseDiff(diffText) == ParseLines(ParseStart, Split(diffText), 1).files

(***************************************************************************)
(* SpecParse: parseDiff on the text of a synthetic unified diff, rendered  *)
(* from a list of entries drawn at the start.                              *)
(***************************************************************************)
MaxChanges == 2

\* contents of a changed line: plain text, a line that starts with '-- '
\* (an SQL comment), a line that starts with '++ b/'
ParseContents == { <<"x">>, <<"-", "-", " ", "c">>, <<"+", "+", " ", "b", "/", "z">> }

ChangeSpecs == [type : {"addition", "deletion", "context"}, content : ParseContents]

ChangeSpecLists(maxChanges) == UNION { [1..n -> ChangeSpecs] : n \in 1..maxChanges }

\* an entry of the diff: its path, its status ('nopath' for an entry that has
\* no '+++' line) and its hunks, each with its start lines and its changes
Entry(path, status, hunks) == [path |-> path, status |-> status, hunks |-> hunks]

HunkSpec(oldStart, newStart, changes) ==
    [oldStart |-> oldStart, newStart |-> newStart, changes |-> changes]

HasNewSide(entry) == entry.status \in {"modified", "added", "renamed"}

\* the entries under test, on path a: of every status with a new side and
\* any changes; deleted, with deletions only; without '+++' line, with no
\* added line that reads as one
MainEntries(maxChanges) ==
    { Entry(<<"a">>, s, << HunkSpec(3, 3, cs) >>)
      : s \in {"modified", "added", "renamed"}, cs \in ChangeSpecLists(maxChanges) }
    \cup
    { Entry(<<"a">>, "deleted", << HunkSpec(3, 0, cs) >>)
      : cs \in { l \in ChangeSpecLists(maxChanges) : \A i \in DOMAIN l : l[i].type = "deletion" } }
    \cup
    { Entry(<<"a">>, "nopath", << HunkSpec(3, 3, cs) >>)
      : cs \in { l \in ChangeSpecLists(maxChanges) :
                   \A i \in DOMAIN l : ~(l[i].type = "addition" /\ l[i].content = <<"+", "+", " ", "b", "/", "z">>) } }

\* what stands before and after the entry under test: nothing, a modified
\* file of two hunks, an added file
Neighbours(path) ==
    { <<>>,
      << Entry(path, "modified",
               << HunkSpec(1, 1, << [type |-> "context", content |-> <<"k">>],
                                    [type |-> "deletion", content |-> <<"m">>],
                                    [type |-> "addition", content |-> <<"n">>] >>),
                  HunkSpec(10, 10, << [type |-> "addition", content |-> <<"p">>] >>) >>) >>,
      << Entry(path, "added",
               << HunkSpec(0, 1, << [type |-> "addition", content |-> <<"q">>] >>) >>) >> }

ParseInputs(maxChanges) ==
    { before \o << e >> \o after
      : before \in Neighbours(<<"b">>), e \in MainEntries(maxChanges), after \in Neighbours(<<"c">>) }

CountSpecs(changes, types) == Cardinality({ i \in DOMAIN changes : changes[i].type \in types })

\* '@@ -oldStart,oldCount +newStart,newCount @@'
RenderHunkHeader(h) ==
    <<"@", "@", " ", "-">> \o DecimalText(h.oldStart) \o <<",">>
       \o DecimalText(CountSpecs(h.changes, {"deletion", "context"}))
       \o <<" ", "+">> \o DecimalText(h.newStart) \o <<",">>
       \o DecimalText(CountSpecs(h.changes, {"addition", "context"})) \o <<" ", "@", "@">>

RenderChange(c) ==
    (IF c.type = "addition" THEN <<"+">> ELSE IF c.type = "deletion" THEN <<"-">> ELSE <<" ">>)
      \o c.content

RECURSIVE RenderChanges(_, _)
RenderChanges(changes, i) ==
    IF i > Len(changes) THEN <<>>
    ELSE << RenderChange(changes[i]) >> \o RenderChanges(changes, i + 1)

RECURSIVE RenderHunks(_, _)
RenderHunks(hunks, i) ==
    IF i > Len(hunks) THEN <<>>
    ELSE << RenderHunkHeader(hunks[i]) >> \o RenderChanges(hunks[i].changes, 1)
           \o RenderHunks(hunks, i + 1)

\* the header lines git writes for an entry of each status
RenderEntryHeader(e) ==
    << <<"d", "i", "f", "f", " ", "-", "-", "g", "i", "t", " ", "a", "/">> \o e.path \o <<" ", "b", "/">> \o e.path >>
    \o (IF e.status = "added"
        THEN << <<"n", "e", "w", " ", "f", "i", "l", "e", " ", "m", "o", "d", "e", " ", "1", "0", "0", "6", "4", "4">>, <<"-", "-", "-", " ", "/", "d", "e", "v", "/", "n", "u", "l", "l">>, <<"+", "+", "+", " ", "b", "/">> \o e.path >>
        ELSE IF e.status = "deleted"
        THEN << <<"d", "e", "l", "e", "t", "e", "d", " ", "f", "i", "l", "e", " ", "m", "o", "d", "e", " ", "1", "0", "0", "6", "4", "4">>, <<"-", "-", "-", " ", "a", "/">> \o e.path, <<"+", "+", "+", " ", "/", "d", "e", "v", "/", "n", "u", "l", "l">> >>
        ELSE IF e.status = "renamed"
        THEN << <<"r", "e", "n", "a", "m", "e", " ", "f", "r", "o", "m", " ", "o", "l", "d">>, <<"r", "e", "n", "a", "m", "e", " ", "t", "o", " ">> \o e.path,
                <<"-", "-", "-", " ", "a", "/", "o", "l", "d">>, <<"+", "+", "+", " ", "b", "/">> \o e.path >>
        ELSE IF e.status = "nopath"
        THEN << <<"o", "l", "d", " ", "m", "o", "d", "e", " ", "1", "0", "0", "6", "4", "4">>, <<"n", "e", "w", " ", "m", "o", "d", "e", " ", "1", "0", "0", "7", "5", "5">> >>
        ELSE << <<"-", "-", "-", " ", "a", "/">> \o e.path, <<"+", "+", "+", " ", "b", "/">> \o e.path >>)

RECURSIVE RenderLines(_, _)
RenderLines(entries, i) ==
    IF i > Len(entries) THEN <<>>
    ELSE RenderEntryHeader(entries[i]) \o RenderHunks(entries[i].hunks, 1)
           \o RenderLines(entries, i + 1)

\* lines.join('\n') + '\n'
RECURSIVE JoinLines(_, _)
JoinLines(lines, i) ==
    IF i > Len(lines) THEN <<>> ELSE lines[i] \o << "\n" >> \o JoinLines(lines, i + 1)

RenderDiff(entries) == JoinLines(RenderLines(entries, 1), 1)

NoParse == << [path |-> <<>>, status |-> "unparsed", hunks |-> <<>>, additions |-> 0,
               deletions |-> 0, truncated |-> FALSE] >>

ParseCalls(maxChanges) ==
    { [fn |-> "parseDiff", entries |-> es, diffText |-> RenderDiff(es), returned |-> FALSE,
       files |-> NoParse] : es \in ParseInputs(maxChanges) }

CallParseDiff ==
    /\ call.fn = "parseDiff" /\ ~call.returned
    /\ call' = [call EXCEPT !.returned = TRUE, !.files = parseDiff(call.diffText)]
    /\ UNCHANGED <<wr, reviews, headSha, proc, apiLog, rn>>

InitParse ==
    /\ call \in ParseCalls(MaxChanges)
    /\ RetryAtRest /\ PostAtRest /\ RunAtRest

NextParse == CallParseDiff

SpecParse == InitParse /\ [][NextParse]_vars

(***************************************************************************)
(* platform-impact.js.  SpecImpact: one call of assessPlatformImpact, one  *)
(* step per file of its loop.                                              *)
(***************************************************************************)
MaxImpactFiles == 3

RISK_LEVELS == <<"critical", "high", "medium", "low">>

\* RISK_LEVELS.indexOf(level), counted from 0; -1 when absent
indexOf(level) ==
    IF \E i \in DOMAIN RISK_LEVELS : RISK_LEVELS[i] = level
    THEN (CHOOSE i \in DOMAIN RISK_LEVELS : RISK_LEVELS[i] = level) - 1
    ELSE -1

higherRiskTakesLatest(a, b) == b

higherRisk(a, b) == IF indexOf(a) <= indexOf(b) THEN a ELSE b

\* the paths of the model and the patterns of constants.js each matches
ImpactPaths ==
    {"src/utils.js", "routes/v1/apps.js", "routes/v1/auth.js", "libs/authenticate.js",
     "libs/middlewares/app.js", "models/migrations/20240101-add-column.js", "package.json",
     "libs/datasources.js", "libs/billing.js"}

AuthPaths == {"routes/v1/auth.js", "libs/authenticate.js"}

DataSourcePaths == {"libs/datasources.js"}

MiddlewarePaths == {"libs/middlewares/app.js"}

MigrationPaths == {"models/migrations/20240101-add-column.js"}

RoutePaths == {"routes/v1/apps.js", "routes/v1/auth.js"}

DependencyPaths == {"package.json"}

\* a category of architecture.criticalPaths: its risk and the paths of the
\* model that one of its file patterns is included in
Category(name, risk, paths) == [category |-> name, risk |-> risk, paths |-> paths]

\* architecture.criticalPaths, in the order of Object.entries: none (the file
\* is missing), the categories the tests rely on, categories of lower risk
Taxonomies ==
    { <<>>,
      << Category("authentication", "critical", {"libs/authenticate.js"}),
         Category("billing", "high", {"libs/billing.js"}) >>,
      << Category("api-route", "medium", {"routes/v1/apps.js", "routes/v1/auth.js"}),
         Category("utilities", "low", {"src/utils.js"}),
         Category("authentication", "critical", {"libs/authenticate.js", "routes/v1/auth.js"}) >> }

NoFlags ==
    [affectsAuth |-> FALSE, affectsData |-> FALSE, affectsMiddleware |-> FALSE,
     affectsSchema |-> FALSE, affectsRoutes |-> FALSE, affectsDependencies |-> FALSE]

\* overallLevel = level: the assignment, kept in the trace of assignments
SetLevel(a, level) == [a EXCEPT !.overallLevel = level, !.levels = Append(@, level)]

\* the loop over the categories, from category k on, for one file
RECURSIVE CheckCategories(_, _, _)
CheckCategories(a, filePath, k) ==
    IF k > Len(a.taxonomy) THEN a
    ELSE LET info == a.taxonomy[k]
         IN IF filePath \in info.paths
            THEN CheckCategories(
                   [SetLevel(a, higherRisk(a.overallLevel, info.risk)) EXCEPT
                      !.criticalFileCount = @ + (IF info.risk = "critical" THEN 1 ELSE 0),
                      !.highFileCount = @ + (IF info.risk = "high" THEN 1 ELSE 0)],
                   filePath, k + 1)
            ELSE CheckCategories(a, filePath, k + 1)

CheckAuth(a, filePath) ==
    IF filePath \in AuthPaths
    THEN LET f == [a EXCEPT !.flags.affectsAuth = TRUE]
         IN IF f.overallLevel # "critical" THEN SetLevel(f, higherRisk(f.overallLevel, "high")) ELSE f
    ELSE a

CheckData(a, filePath) ==
    IF filePath \in DataSourcePaths
    THEN LET f == [a EXCEPT !.flags.affectsData = TRUE]
         IN IF f.overallLevel # "critical" THEN SetLevel(f, higherRisk(f.overallLevel, "high")) ELSE f
    ELSE a

CheckMiddleware(a, filePath) ==
    IF filePath \in MiddlewarePaths
    THEN SetLevel([a EXCEPT !.flags.affectsMiddleware = TRUE], higherRisk(a.overallLevel, "critical"))
    ELSE a

CheckMigration(a, filePath) ==
    IF filePath \in MigrationPaths
    THEN SetLevel([a EXCEPT !.flags.affectsSchema = TRUE], higherRisk(a.overallLevel, "critical"))
    ELSE a

CheckRoutes(a, filePath) ==
    IF filePath \in RoutePaths
    THEN LET f == [a EXCEPT !.flags.affectsRoutes = TRUE]
         IN IF f.overallLevel # "critical" THEN SetLevel(f, higherRisk(f.overallLevel, "medium")) ELSE f
    ELSE a

CheckDependencies(a, filePath) ==
    IF filePath \in DependencyPaths
    THEN LET f == [a EXCEPT !.flags.affectsDependencies = TRUE]
         IN IF f.overallLevel # "critical" /\ f.overallLevel # "high"
            THEN SetLevel(f, higherRisk(f.overallLevel, "medium")) ELSE f
    ELSE a

\* the body of the loop over the files
AssessOne(a, filePath) ==
    CheckDependencies(
      CheckRoutes(
        CheckMigration(
          CheckMiddleware(
            CheckData(
              CheckAuth(CheckCategories(a, filePath, 1), filePath), filePath), filePath), filePath),
        filePath), filePath)

ImpactFileLists(maxFiles) ==
    UNION { { fs \in [1..n -> ImpactPaths] : \A i, j \in 1..n : i # j => fs[i] # fs[j] }
            : n \in 0..maxFiles }

ImpactCalls(maxFiles) ==
    { [fn |-> "assessPlatformImpact", files |-> fs, taxonomy |-> t, i |-> 1,
       overallLevel |-> "low", levels |-> << "low" >>, flags |-> NoFlags,
       criticalFileCount |-> 0, highFileCount |-> 0, returned |-> FALSE]
      : fs \in ImpactFileLists(maxFiles), t \in Taxonomies }

\* for (const file of files) { ... }
AssessFile ==
    /\ call.fn = "assessPlatformImpact" /\ ~call.returned
    /\ call.i <= Len(call.files)
    /\ call' = [AssessOne(call, call.files[call.i]) EXCEPT !.i = call.i + 1]
    /\ UNCHANGED <<wr, reviews, headSha, proc, apiLog, rn>>

\* return { level: overallLevel, ...flags, criticalFileCount, highFileCount }
AssessReturns ==
    /\ call.fn = "assessPlatformImpact" /\ ~call.returned
    /\ call.i > Len(call.files)
    /\ call' = [call EXCEPT !.returned = TRUE]
    /\ UNCHANGED <<wr, reviews, headSha, proc, apiLog, rn>>

InitImpact ==
    /\ call \in ImpactCalls(MaxImpactFiles)
    /\ RetryAtRest /\ PostAtRest /\ RunAtRest

NextImpact == AssessFile \/ AssessReturns

SpecImpact == InitImpact /\ [][NextImpact]_vars

(***************************************************************************)
(* complexity-scorer.js.  SpecScore: one call of scorePRComplexity on     *)
(* files, a title, a body and an impact drawn at the start.                *)
(***************************************************************************)
COMPLEXITY_KEYWORDS ==
    { <<"r", "e", "f", "a", "c", "t", "o", "r">>, <<"m", "i", "g", "r", "a", "t", "i", "o", "n">>, <<"s", "e", "c", "u", "r", "i", "t", "y">>, <<"a", "r", "c", "h", "i", "t", "e", "c", "t", "u", "r", "e">>, <<"b", "r", "e", "a", "k", "i", "n", "g">>,
      <<"r", "e", "w", "r", "i", "t", "e">>, <<"e", "n", "d", "p", "o", "i", "n", "t">>, <<"s", "c", "h", "e", "m", "a">>, <<"d", "a", "t", "a", "b", "a", "s", "e">> }

\* the upper-case letters and their lower-case forms
UpperCase == <<"A", "B", "C", "D", "E", "F", "G", "H", "I", "J", "K", "L", "M",
               "N", "O", "P", "Q", "R", "S", "T", "U", "V", "W", "X", "Y", "Z">>

LowerCase == <<"a", "b", "c", "d", "e", "f", "g", "h", "i", "j", "k", "l", "m",
               "n", "o", "p", "q", "r", "s", "t", "u", "v", "w", "x", "y", "z">>

\* text.toLowerCase(), on a sequence of characters
toLowerCase(text) ==
    [ i \in DOMAIN text |->
        IF \E k \in DOMAIN UpperCase : UpperCase[k] = text[i]
        THEN LowerCase[CHOOSE k \in DOMAIN UpperCase : UpperCase[k] = text[i]]
        ELSE text[i] ]

\* text.includes(kw)
includes(text, kw) ==
    \E i \in 0..(Len(text) - Len(kw)) : SubSeq(text, i + 1, i + Len(kw)) = kw

\* a string value, as against null
Text(chars) == [text |-> chars]

\* value || ''
OrEmpty(value) == IF value = null THEN <<>> ELSE value.text

\* files.reduce((sum, f) => sum + f.additions + f.deletions, 0)
RECURSIVE totalChanges(_, _)
totalChanges(files, i) ==
    IF i > Len(files) THEN 0
    ELSE files[i].additions + files[i].deletions + totalChanges(files, i + 1)

\* files.reduce((sum, f) => sum + (f.hunks ? f.hunks.length : 0), 0)
RECURSIVE totalHunks(_, _)
totalHunks(files, i) ==
    IF i > Len(files) THEN 0 ELSE Len(files[i].hunks) + totalHunks(files, i + 1)

hasSecurityFiles(files) == \E i \in DOMAIN files : isSecurityFile(files[i].path)

hasComplexityKeyword(prTitle, prBody) ==
    LET textToSearch == toLowerCase(OrEmpty(prTitle) \o <<" ">> \o OrEmpty(prBody))
    IN \E kw \in COMPLEXITY_KEYWORDS : includes(textToSearch, kw)

hasLargeFile(files) == \E i \in DOMAIN files : files[i].additions + files[i].deletions > 100

ImpactBoostLevelOnly(platformImpact) ==
    IF platformImpact = null THEN 0
    ELSE IF platformImpact.level = "critical" THEN 30
    ELSE IF platformImpact.level = "high" THEN 20
    ELSE IF platformImpact.level = "medium" THEN 10 ELSE 0

\* if (platformImpact) { ... }
ImpactBoost(platformImpact) ==
    IF platformImpact = null THEN 0
    ELSE (IF platformImpact.level = "critical" THEN 30
          ELSE IF platformImpact.level = "high" THEN 20
          ELSE IF platformImpact.level = "medium" THEN 10 ELSE 0)
         + (IF platformImpact.affectsSchema THEN 15 ELSE 0)

scorePRComplexity(files, prTitle, prBody, platformImpact) ==
    LET score == (IF totalChanges(files, 1) > 200 THEN 20 ELSE 0)
               + (IF Len(files) > 10 THEN 15 ELSE 0)
               + (IF hasSecurityFiles(files) THEN 25 ELSE 0)
               + (IF hasComplexityKeyword(prTitle, prBody) THEN 15 ELSE 0)
               + (IF totalHunks(files, 1) > 20 THEN 10 ELSE 0)
               + (IF hasLargeFile(files) THEN 15 ELSE 0)
               + ImpactBoost(platformImpact)
    IN Min(score, 100)

\* n copies of a file
Copies(file, n) == [ i \in 1..n |-> file ]

\* a file of one hunk of n added lines
ScoreFile(path, n) == File(path, "modified", VolumeHunks(n))

\* the file lists: 0, 1 or 11 files of 2 changes; 3 files of 70 changes or
\* none; 0 to 2 files of 101 changes; a file of 21 hunks of one change or
\* none; a security-sensitive file of 2 changes or none
ScoreFileLists ==
    { Copies(ScoreFile("src/utils.js", 2), nSmall)
        \o Copies(ScoreFile("src/render.js", 70), nMid)
        \o Copies(ScoreFile("src/list.js", 101), nLarge)
        \o Copies(File("src/helpers.js", "modified", AddedHunks(21, 1)), nHunks)
        \o Copies(ScoreFile("src/auth.js", 2), nSecurity)
      : nSmall \in {0, 1, 11}, nMid \in {0, 3}, nLarge \in {0, 1, 2},
        nHunks \in {0, 1}, nSecurity \in {0, 1} }

ScoreTitles == { null, Text(<<"F", "i", "x", " ", "t", "y", "p", "o">>), Text(<<"R", "E", "F", "A", "C", "T", "O", "R", " ", "a", "p", "i">>) }

ScoreBodies == { null, Text(<<"s", "m", "a", "l", "l", " ", "f", "i", "x">>), Text(<<"n", "e", "w", " ", "S", "c", "h", "e", "m", "a">>) }

ScoreImpacts ==
    {null} \cup { [level |-> l, affectsSchema |-> s]
                  : l \in Range(RISK_LEVELS), s \in BOOLEAN }

ScoreCalls ==
    { [fn |-> "scorePRComplexity", files |-> fs, prTitle |-> t, prBody |-> b,
       platformImpact |-> p, returned |-> FALSE, score |-> 0]
      : fs \in ScoreFileLists, t \in ScoreTitles, b \in ScoreBodies, p \in ScoreImpacts }

CallScorePRComplexity ==
    /\ call.fn = "scorePRComplexity" /\ ~call.returned
    /\ call' = [call EXCEPT !.returned = TRUE, !.score =
                  scorePRComplexity(call.files, call.prTitle, call.prBody, call.platformImpact)]
    /\ UNCHANGED <<wr, reviews, headSha, proc, apiLog, rn>>

InitScore ==
    /\ call \in ScoreCalls
    /\ RetryAtRest /\ PostAtRest /\ RunAtRest

NextScore == CallScorePRComplexity

SpecScore == InitScore /\ [][NextScore]_vars

(***************************************************************************)
(* retry.js: parseToolResponse and parseReviewResponse.  SpecValidate: one *)
(* call of parseToolResponse on a response of the reviewer.  A JavaScript  *)
(* value is undefined, null, Str(s), Text(characters), Num(n), Arr(items) *)
(* or an object (a record of its fields).                                  *)
(***************************************************************************)
MaxRawComments == 2

undefined == [undefined |-> TRUE]

Str(s) == [str |-> s]

Num(n) == [num |-> n]

Arr(items) == [array |-> items]

\* the JavaScript truth of a value of a field: not undefined, null, '' or 0
Truthy(v) ==
    /\ v # undefined /\ v # null
    /\ v # Str("") /\ v # Text(<<>>) /\ v # Num(0)

\* String(n) of an integer below 100 in absolute value
NumberText(n) == IF n < 0 THEN <<"-">> \o DecimalText(0 - n) ELSE DecimalText(n)

\* parseInt(chars, 10): white space, a sign, digits; NaN without a digit
ParseIntChars(chars) ==
    LET spaces == { i \in 0..Len(chars) : \A k \in 1..i : chars[k] = " " }
        start == 1 + CHOOSE i \in spaces : \A j \in spaces : j <= i
        signed == start <= Len(chars) /\ chars[start] \in {"-", "+"}
        first == IF signed THEN start + 1 ELSE start
        last == DigitsEnd(chars, first)
    IN IF last < first THEN [nan |-> TRUE, n |-> 0]
       ELSE [nan |-> FALSE,
             n |-> IF signed /\ chars[start] = "-"
                   THEN 0 - parseInt(SubSeq(chars, first, last))
                   ELSE parseInt(SubSeq(chars, first, last))]

\* parseInt(value, 10) of a number or a string
parseIntValue(v) ==
    IF "num" \in DOMAIN v THEN ParseIntChars(NumberText(v.num))
    ELSE IF "text" \in DOMAIN v THEN ParseIntChars(v.text)
    ELSE [nan |-> TRUE, n |-> 0]

\* Math.max(1, parseInt(c.line, 10) || 1)
CleanLine(line) ==
    LET p == parseIntValue(line)
        orOne == IF p.nan \/ p.n = 0 THEN 1 ELSE p.n
    IN IF orOne >= 1 THEN orOne ELSE 1

SEVERITIES == {"critical", "warning", "suggestion"}

APPROVALS == {"approve", "request_changes", "comment"}

\* [...].includes(value)
IncludesValue(strings, v) == "str" \in DOMAIN v /\ v.str \in strings

RawComment(path, line, severity, body) ==
    [path |-> path, line |-> line, severity |-> severity, body |-> body]

\* c => c.path && c.line && c.body
CommentIsCompleteAnyLine(c) == Truthy(c.path) /\ Truthy(c.body)

CommentIsComplete(c) == Truthy(c.path) /\ Truthy(c.line) /\ Truthy(c.body)

\* c => ({ path, line, severity, body })
CleanComment(c) ==
    [path |-> c.path,
     line |-> CleanLine(c.line),
     severity |-> IF IncludesValue(SEVERITIES, c.severity) THEN c.severity ELSE Str("suggestion"),
     body |-> c.body]

\* whether comments.filter(...).map(...) throws: reading a property of null
CommentsThrow(comments) == \E i \in DOMAIN comments.array : comments.array[i] = null

RECURSIVE FilterMapComments(_, _)
FilterMapComments(items, i) ==
    IF i > Len(items) THEN <<>>
    ELSE (IF CommentIsComplete(items[i]) THEN << CleanComment(items[i]) >> ELSE <<>>)
           \o FilterMapComments(items, i + 1)

\* comments.filter(...).map(...)
CleanComments(comments) == Arr(FilterMapComments(comments.array, 1))

\* Array.isArray(value)
isArray(v) == "array" \in DOMAIN v

RawSummary(path, summary) == [path |-> path, summary |-> summary]

\* file_summaries.filter(f => f.path && f.summary).map(...); the cap of a
\* summary at 100 characters is left out
RECURSIVE FilterSummaries(_, _)
FilterSummaries(items, i) ==
    IF i > Len(items) THEN <<>>
    ELSE (IF Truthy(items[i].path) /\ Truthy(items[i].summary)
          THEN << items[i] >> ELSE <<>>) \o FilterSummaries(items, i + 1)

CleanSummaries(summaries) == Arr(FilterSummaries(summaries.array, 1))

Verdict(summary, approval, comments, file_summaries) ==
    [summary |-> summary, approval |-> approval, comments |-> comments,
     file_summaries |-> file_summaries]

\* what a call does: it returns a value or throws
Returns(value) == [threw |-> FALSE, value |-> value]

Throws(message) == [threw |-> TRUE, value |-> Str(message)]

PARSING_ERROR_SUMMARY == "AI review encountered a parsing error. Manual review recommended."

SafeDefault == Verdict(Str(PARSING_ERROR_SUMMARY), Str("comment"), Arr(<<>>), undefined)

\* the text of a text block, by what JSON.parse makes of it (after the
\* markdown fence, if any, is taken off): a syntax error or the value parsed
NotJson == [syntaxError |-> TRUE]

\* the try block of parseReviewResponse
ParseReviewTry(parsed) ==
    IF parsed = NotJson THEN Throws("Unexpected token")
    ELSE IF parsed = null THEN Throws("Cannot read properties of null")
    ELSE IF ~Truthy(parsed.summary) \/ ~Truthy(parsed.approval) \/ ~isArray(parsed.comments)
    THEN Throws("Invalid response structure")
    ELSE IF CommentsThrow(parsed.comments) THEN Throws("Cannot read properties of null")
    ELSE Returns([parsed EXCEPT
           !.approval = IF IncludesValue(APPROVALS, @) THEN @ ELSE Str("comment"),
           !.comments = CleanComments(@)])

parseReviewResponse(text) ==
    LET try == ParseReviewTry(text.json)
    IN IF try.threw THEN Returns(SafeDefault) ELSE try

ToolUseBlock(name, input) == [type |-> "tool_use", name |-> name, input |-> input]

TextBlock(fenced, json) == [type |-> "text", text |-> [fenced |-> fenced, json |-> json]]

ThinkingBlock == [type |-> "thinking"]

\* response.content.find(b => b.type === type), 0 when there is none
FindBlock(content, type) ==
    IF \E i \in DOMAIN content : content[i].type = type
    THEN CHOOSE i \in DOMAIN content :
           content[i].type = type /\ \A j \in 1..(i - 1) : content[j].type # type
    ELSE 0

\* the branch of parseToolResponse for a submit_review block
CleanToolInputKeepsApproval(result) ==
    IF isArray(result.comments) /\ CommentsThrow(result.comments)
    THEN Throws("Cannot read properties of null")
    ELSE Returns([result EXCEPT
           !.file_summaries = IF isArray(@) THEN CleanSummaries(@) ELSE Arr(<<>>),
           !.comments = IF isArray(@) THEN CleanComments(@) ELSE Arr(<<>>)])

CleanToolInput(result) ==
    IF isArray(result.comments) /\ CommentsThrow(result.comments)
    THEN Throws("Cannot read properties of null")
    ELSE Returns([result EXCEPT
           !.file_summaries = IF isArray(@) THEN CleanSummaries(@) ELSE Arr(<<>>),
           !.comments = IF isArray(@) THEN CleanComments(@) ELSE Arr(<<>>),
           !.approval = IF IncludesValue(APPROVALS, @) THEN @ ELSE Str("comment")])

parseToolResponse(response) ==
    LET tool == FindBlock(response.content, "tool_use")
        text == FindBlock(response.content, "text")
    IN IF tool # 0 /\ response.content[tool].name = "submit_review"
       THEN CleanToolInput(response.content[tool].input)
       ELSE IF text # 0 THEN parseReviewResponse(response.content[text].text)
       ELSE Returns(SafeDefault)

\* a complete comment, and comments that differ from it in one field
GoodComment == RawComment(Str("a.js"), Num(5), Str("warning"), Str("Missing error handling"))

RawComments ==
    {null, GoodComment}
      \cup { [GoodComment EXCEPT !.path = v] : v \in {undefined, Str("")} }
      \cup { [GoodComment EXCEPT !.line = v]
             : v \in {undefined, Num(0), Num(0 - 3), Text(<<"7">>),
                      Text(<<"-", "2">>), Text(<<"a", "b", "c">>)} }
      \cup { [GoodComment EXCEPT !.severity = v] : v \in {Str("blocker"), Str("critical")} }
      \cup { [GoodComment EXCEPT !.body = v] : v \in {undefined} }

RawCommentLists(maxComments) == { Arr(items) : items \in UNION { [1..n -> RawComments] : n \in 0..maxComments } }

\* the objects of a tool input or of a JSON text
RawVerdicts(maxComments) ==
    { Verdict(s, a, c, undefined)
      : s \in {undefined, Str("Looks good")},
        a \in {undefined, Str("approve"), Str("lgtm")},
        c \in RawCommentLists(maxComments) \cup {undefined, Str("none")} }
      \cup { Verdict(s, Str("approve"), Arr(<< GoodComment >>),
                     Arr(<< RawSummary(Str("a.js"), Str("Adds a check")),
                            RawSummary(Str("b.js"), undefined) >>))
             : s \in {undefined, Str("Looks good")} }

GoodVerdict == Verdict(Str("Looks good"), Str("approve"), Arr(<< GoodComment >>), undefined)

Responses(maxComments) ==
    { [content |-> << ToolUseBlock("submit_review", v) >>] : v \in RawVerdicts(maxComments) }
      \cup { [content |-> << TextBlock(FALSE, v) >>] : v \in RawVerdicts(maxComments) }
      \cup { [content |-> blocks]
             : blocks \in { <<>>,
                            << ThinkingBlock >>,
                            << ThinkingBlock, ToolUseBlock("submit_review", GoodVerdict) >>,
                            << ThinkingBlock, TextBlock(TRUE, GoodVerdict) >>,
                            << ToolUseBlock("other_tool", GoodVerdict) >>,
                            << ToolUseBlock("other_tool", GoodVerdict), TextBlock(FALSE, NotJson) >>,
                            << TextBlock(FALSE, NotJson) >>,
                            << TextBlock(TRUE, null) >> } }

ValidateCalls(maxComments) ==
    { [fn |-> "parseToolResponse", response |-> r, done |-> FALSE, outcome |-> Returns(undefined)]
      : r \in Responses(maxComments) }

CallParseToolResponse ==
    /\ call.fn = "parseToolResponse" /\ ~call.done
    /\ call' = [call EXCEPT !.done = TRUE, !.outcome = parseToolResponse(call.response)]
    /\ UNCHANGED <<wr, reviews, headSha, proc, apiLog, rn>>

InitValidate ==
    /\ call \in ValidateCalls(MaxRawComments)
    /\ RetryAtRest /\ PostAtRest /\ RunAtRest

NextValidate == CallParseToolResponse

SpecValidate == InitValidate /\ [][NextValidate]_vars

(***************************************************************************)
(* SpecSelect: what run (index.js) and reviewWithClaude make of a          *)
(* complexity score: the model selected and whether thinking is enabled.   *)
(***************************************************************************)
SONNET == "claude-sonnet-4-20250514"

OPUS == "claude-opus-4-5-20250514"

recommendModel(score) == IF score >= 40 THEN OPUS ELSE SONNET

shouldEnableThinkingByScoreOnly(enableThinking, model, complexityScore) ==
    IF enableThinking = "always" THEN TRUE
    ELSE IF enableThinking = "never" THEN FALSE
    ELSE complexityScore >= 50

shouldEnableThinking(enableThinking, model, complexityScore) ==
    IF enableThinking = "always" THEN TRUE
    ELSE IF enableThinking = "never" THEN FALSE
    ELSE model = OPUS \/ complexityScore >= 50

\* the values of scorePRComplexity: sums of points of the rubric, at most 100
ComplexityScores == { 5 * n : n \in (0..20) \ {1} }

\* process.env.CLAUDE_MODEL: unset ('') or the name of a model
ExplicitModels == {"", SONNET, OPUS}

SelectCalls ==
    { [fn |-> "run", pc |-> "scored", complexityScore |-> s, explicitModel |-> e,
       autoModelSelection |-> a, enableThinking |-> t, selectedModel |-> "",
       useThinking |-> FALSE]
      : s \in ComplexityScores, e \in ExplicitModels, a \in BOOLEAN,
        t \in {"auto", "always", "never"} }

\* if (explicitModel) ... else if (autoModelSelection) ... else ...
SelectModel ==
    /\ call.fn = "run" /\ call.pc = "scored"
    /\ call' = [call EXCEPT
          !.pc = "selected",
          !.selectedModel = IF call.explicitModel # "" THEN call.explicitModel
                            ELSE IF call.autoModelSelection
                            THEN recommendModel(call.complexityScore)
                            ELSE SONNET]
    /\ UNCHANGED <<wr, reviews, headSha, proc, apiLog, rn>>

\* the first lines of reviewWithClaude({ model: selectedModel, enableThinking,
\* complexityScore, ... })
ReviewDecidesThinking ==
    /\ call.fn = "run" /\ call.pc = "selected"
    /\ LET selectedModel == IF call.selectedModel # "" THEN call.selectedModel
                            ELSE IF call.explicitModel # "" THEN call.explicitModel
                            ELSE SONNET
           thinkingSetting == IF call.enableThinking # "" THEN call.enableThinking ELSE "auto"
           score == call.complexityScore
       IN call' = [call EXCEPT
             !.pc = "reviewing",
             !.useThinking = shouldEnableThinking(thinkingSetting, selectedModel, score)]
    /\ UNCHANGED <<wr, reviews, headSha, proc, apiLog, rn>>

InitSelect ==
    /\ call \in SelectCalls
    /\ RetryAtRest /\ PostAtRest /\ RunAtRest

NextSelect == SelectModel \/ ReviewDecidesThinking

SpecSelect == InitSelect /\ [][NextSelect]_vars

(***************************************************************************)
(* SpecRace: two invocations of postReview running concurrently on one PR  *)
(* whose head commit does not move (two workflow runs for the same         *)
(* commit); the awaits of the two interleave freely.                       *)
(***************************************************************************)
\* the verdicts of the two runs
RaceVerdicts ==
    { [approval |-> "approve", summary |-> "summary", comments |-> <<>>],
      [approval |-> "request_changes", summary |-> "summary",
       comments |-> << Comment("src/zz.js", 7, "suggestion", "c3"),
                       Comment("src/b.js", 1, "critical", "c4") >>] }

\* postReview is called, whatever the other invocation is doing
RaceStart(p, review, reviewMode) ==
    /\ proc[p].pc = "idle"
    /\ proc' = [proc EXCEPT ![p] = [IdleProc EXCEPT !.pc = "get", !.review = review,
                                                    !.reviewMode = reviewMode,
                                                    !.before = reviews]]
    /\ UNCHANGED <<reviews, headSha, apiLog, wr, call, rn>>

InitRace ==
    /\ reviews \in { l \in InitialReviewLists : Len(l) <= 1 }
    /\ headSha = "sha1"
    /\ proc = [p \in Procs |-> IdleProc]
    /\ apiLog = [p \in Procs |-> <<>>]
    /\ RetryAtRest /\ PureAtRest /\ RunAtRest

NextRace ==
    \/ \E p \in Procs, review \in RaceVerdicts : RaceStart(p, review, "can-request-changes")
    \/ \E p \in Procs : PostStep(p)

SpecRace == InitRace /\ [][NextRace]_vars

(***************************************************************************)
(* index.js, run from the token budget to the call of the reviewer         *)
(* (lines 125-196).                                                        *)
(***************************************************************************)
MaxTriageFiles == 7

TRIAGE_MIN_FILES == 5

\* Math.max
Max(a, b) == IF a >= b THEN a ELSE b

\* lines 126-128 (Math.floor(maxDiffTokens * 0.5) is maxDiffTokens \div 2)
effectiveDiffBudget(maxDiffTokens, fullContextTokens) ==
    IF fullContextTokens > 0
    THEN Max(maxDiffTokens - fullContextTokens, maxDiffTokens \div 2)
    ELSE maxDiffTokens

\* the estimated cost of the files of a list, each formatted for the prompt
RECURSIVE CostOfAll(_, _)
CostOfAll(files, i) ==
    IF i > Len(files) THEN 0
    ELSE estimateTokens(formatFileForPrompt(files[i])) + CostOfAll(files, i + 1)

\* lines 149-151 (TRIAGE_TOKEN_MULTIPLIER is 1.5: x > b * 1.5 iff 2x > 3b)
shouldTriage(reviewableFiles, budgetResult, budget) ==
    /\ 2 * budgetResult.estimatedTokens > 3 * budget
    /\ Len(reviewableFiles) > TRIAGE_MIN_FILES

\* lines 139-142
FileListOf(files) ==
    [ i \in DOMAIN files |->
        files[i].path \o (IF files[i].status # "" /\ files[i].status # "modified"
                          THEN " (" \o files[i].status \o ")" ELSE "") ]

\* reviewableFiles.filter(f => flaggedSet.has(f.path))
RECURSIVE FilterFlagged(_, _, _)
FilterFlagged(files, flagged, i) ==
    IF i > Len(files) THEN <<>>
    ELSE (IF files[i].path \in flagged THEN <<files[i]>> ELSE <<>>)
         \o FilterFlagged(files, flagged, i + 1)

\* n reviewable files of one hunk of one added line of len characters each
TriageFileList(n, len) ==
    [ i \in 1..n |-> File("src/f" \o ToString(i) \o ".js",
                          IF i = 1 THEN "added" ELSE "modified", AddedHunks(1, len)) ]

\* MAX_DIFF_TOKENS as parseInt(...) || 15000 gives it: a number other than 0
TriageBudgets == {-100, 300, 601, 15000}

TriageCalls(maxFiles) ==
    { [fn |-> "run", pc |-> "budget", files |-> TriageFileList(n, len),
       maxDiffTokens |-> b, fullContextTokens |-> c,
       budget |-> 0, estimatedDiffTokens |-> 0, triaged |-> FALSE,
       diffForReview |-> <<>>, filesForReview |-> <<>>]
      : n \in (maxFiles - 3)..maxFiles, len \in {20, 400}, b \in TriageBudgets, c \in {0, 200} }

\* lines 126-153: the budget is applied; the triage pass or the reviewer is
\* called next
ApplyBudget ==
    LET budget == effectiveDiffBudget(call.maxDiffTokens, call.fullContextTokens)
        budgetResult == truncateDiff(call.files, budget)
    IN /\ call.fn = "run" /\ call.pc = "budget"
       /\ call' = [call EXCEPT !.budget = budget,
                               !.estimatedDiffTokens = budgetResult.estimatedTokens,
                               !.diffForReview = budgetResult.files,
                               !.filesForReview = FileListOf(call.files),
                               !.pc = IF shouldTriage(call.files, budgetResult, budget)
                                      THEN "triage" ELSE "review"]
       /\ UNCHANGED <<wr, reviews, headSha, proc, apiLog, rn>>

\* lines 156-179: triageFiles resolves with the flagged paths (never none:
\* triageFiles returns the whole list when nothing valid is flagged)
TriageFlags(flagged) ==
    LET flaggedFiles == FilterFlagged(call.files, flagged, 1)
        narrowed == Cardinality(flagged) < Len(call.files) /\ Len(flaggedFiles) > 0
    IN /\ call.fn = "run" /\ call.pc = "triage"
       /\ flagged # {}
       /\ flagged \subseteq { call.files[i].path : i \in DOMAIN call.files }
       /\ call' = [call EXCEPT !.triaged = TRUE,
                               !.pc = "review",
                               !.diffForReview =
                                   IF narrowed THEN truncateDiff(flaggedFiles, call.budget).files ELSE @,
                               !.filesForReview =
                                   IF narrowed THEN FileListOf(flaggedFiles) ELSE @]
       /\ UNCHANGED <<wr, reviews, headSha, proc, apiLog, rn>>

\* triageFiles throws (no API key, or the error withRetry rethrows): run is left
TriageThrows ==
    /\ call.fn = "run" /\ call.pc = "triage"
    /\ call' = [call EXCEPT !.pc = "thrown"]
    /\ UNCHANGED <<wr, reviews, headSha, proc, apiLog, rn>>

\* line 183: reviewWithClaude is called
CallReviewer ==
    /\ call.fn = "run" /\ call.pc = "review"
    /\ call' = [call EXCEPT !.pc = "reviewing"]
    /\ UNCHANGED <<wr, reviews, headSha, proc, apiLog, rn>>

InitTriage ==
    /\ call \in TriageCalls(MaxTriageFiles)
    /\ RetryAtRest /\ PostAtRest /\ RunAtRest

NextTriage ==
    \/ ApplyBudget
    \/ \E flagged \in SUBSET {"src/f1.js", "src/f2.js", "src/f6.js"} : TriageFlags(flagged)
    \/ TriageThrows
    \/ CallReviewer

SpecTriage == InitTriage /\ [][NextTriage]_vars

(***************************************************************************)
(* diff-parser.js: isReviewableFile, on paths as sequences of characters;  *)
(* index.js, run from the parsed diff to the impact assessment (lines      *)
(* 72-94).  SpecAssess: one run over a list of changed paths.              *)
(***************************************************************************)
MaxRunFiles == 3

REVIEWABLE_JSON_FILES == { <<"w", "i", "d", "g", "e", "t", ".", "j", "s", "o", "n">> }

skipExtensions ==
    { <<".", "m", "d">>, <<".", "t", "x", "t">>, <<".", "y", "m", "l">>, <<".", "y", "a", "m", "l">>, <<".", "l", "o", "c", "k">>,
      <<".", "p", "n", "g">>, <<".", "j", "p", "g">>, <<".", "j", "p", "e", "g">>, <<".", "g", "i", "f">>, <<".", "s", "v", "g">>, <<".", "i", "c", "o">>,
      <<".", "w", "o", "f", "f">>, <<".", "w", "o", "f", "f", "2">>, <<".", "t", "t", "f">>, <<".", "e", "o", "t">>,
      <<".", "m", "i", "n", ".", "j", "s">>, <<".", "m", "i", "n", ".", "c", "s", "s">>, <<".", "m", "a", "p">> }

skipPaths ==
    { <<"n", "o", "d", "e", "_", "m", "o", "d", "u", "l", "e", "s", "/">>, <<"p", "a", "c", "k", "a", "g", "e", "-", "l", "o", "c", "k", ".", "j", "s", "o", "n">>, <<".", "g", "i", "t", "h", "u", "b", "/">>, <<"d", "i", "s", "t", "/">>,
      <<"b", "u", "i", "l", "d", "/">>, <<"c", "o", "v", "e", "r", "a", "g", "e", "/">> }

\* text.endsWith(suffix)
endsWith(text, suffix) ==
    Len(text) >= Len(suffix) /\ SubSeq(text, Len(text) - Len(suffix) + 1, Len(text)) = suffix

\* path.basename(p) of a path that does not end with a slash
basename(p) ==
    LET slashes == { i \in DOMAIN p : p[i] = "/" }
        last == IF slashes = {} THEN 0 ELSE CHOOSE i \in slashes : \A j \in slashes : j <= i
    IN SubSeq(p, last + 1, Len(p))

isReviewableFile(filePath) ==
    LET lowerPath == toLowerCase(filePath)
    IN IF \E p \in skipPaths : includes(lowerPath, p) THEN FALSE
       ELSE IF endsWith(lowerPath, <<".", "j", "s", "o", "n">>) THEN basename(lowerPath) \in REVIEWABLE_JSON_FILES
       ELSE IF \E ext \in skipExtensions : endsWith(lowerPath, ext) THEN FALSE
       ELSE TRUE

\* the string of a sequence of characters
RECURSIVE PathString(_)
PathString(chars) ==
    IF chars = <<>> THEN "" ELSE Head(chars) \o PathString(Tail(chars))

\* allFiles.filter(f => isReviewableFile(f.path))
RECURSIVE FilterReviewable(_, _)
FilterReviewable(files, i) ==
    IF i > Len(files) THEN <<>>
    ELSE (IF isReviewableFile(files[i]) THEN <<files[i]>> ELSE <<>>)
         \o FilterReviewable(files, i + 1)

\* assessPlatformImpact(files, repo): the loop over the files, then the result
RECURSIVE AssessFrom(_, _)
AssessFrom(a, i) ==
    IF i > Len(a.files) THEN a ELSE AssessFrom(AssessOne(a, a.files[i]), i + 1)

assessPlatformImpact(files, taxonomy) ==
    LET a == AssessFrom([files |-> files, taxonomy |-> taxonomy, overallLevel |-> "low",
                         levels |-> << "low" >>, flags |-> NoFlags,
                         criticalFileCount |-> 0, highFileCount |-> 0], 1)
    IN [level |-> a.overallLevel, flags |-> a.flags,
        criticalFileCount |-> a.criticalFileCount, highFileCount |-> a.highFileCount]

\* the paths a diff of the model changes
RunPaths ==
    { <<"p", "a", "c", "k", "a", "g", "e", ".", "j", "s", "o", "n">>, <<"p", "a", "c", "k", "a", "g", "e", "-", "l", "o", "c", "k", ".", "j", "s", "o", "n">>, <<"w", "i", "d", "g", "e", "t", ".", "j", "s", "o", "n">>, <<"R", "E", "A", "D", "M", "E", ".", "m", "d">>,
      <<"r", "o", "u", "t", "e", "s", "/", "v", "1", "/", "a", "p", "p", "s", ".", "j", "s">>, <<"l", "i", "b", "s", "/", "a", "u", "t", "h", "e", "n", "t", "i", "c", "a", "t", "e", ".", "j", "s">>, <<"s", "r", "c", "/", "u", "t", "i", "l", "s", ".", "j", "s">> }

RunFileLists(maxFiles) ==
    UNION { { fs \in [1..n -> RunPaths] : \A i, j \in 1..n : i # j => fs[i] # fs[j] }
            : n \in 1..maxFiles }

NoImpact == [level |-> "", flags |-> NoFlags, criticalFileCount |-> 0, highFileCount |-> 0]

\* a run: the paths of the parsed diff, the taxonomy of the repository, and
\* whether the changes reach MIN_LINES
AssessRuns(maxFiles) ==
    { [fn |-> "run", pc |-> "parsed", allFiles |-> fs, taxonomy |-> t, enoughChanges |-> e,
       reviewableFiles |-> <<>>, platformImpact |-> NoImpact]
      : fs \in RunFileLists(maxFiles), t \in Taxonomies, e \in BOOLEAN }

\* lines 76-88: the filter; run returns when nothing is left to review or the
\* changes are below the threshold
FilterFiles ==
    LET reviewableFiles == FilterReviewable(call.allFiles, 1)
    IN /\ call.fn = "run" /\ call.pc = "parsed"
       /\ call' = [call EXCEPT !.reviewableFiles = reviewableFiles,
                               !.pc = IF Len(reviewableFiles) = 0 \/ ~call.enoughChanges
                                      THEN "skipped" ELSE "filtered"]
       /\ UNCHANGED <<wr, reviews, headSha, proc, apiLog, rn>>

\* line 93: platformImpact = assessPlatformImpact(reviewableFiles, repo)
AssessImpact ==
    /\ call.fn = "run" /\ call.pc = "filtered"
    /\ call' = [call EXCEPT !.pc = "assessed",
                            !.platformImpact =
                                assessPlatformImpact(
                                    [ i \in DOMAIN call.reviewableFiles |->
                                        PathString(call.reviewableFiles[i]) ],
                                    call.taxonomy)]
    /\ UNCHANGED <<wr, reviews, headSha, proc, apiLog, rn>>

InitAssess ==
    /\ call \in AssessRuns(MaxRunFiles)
    /\ RetryAtRest /\ PostAtRest /\ RunAtRest

NextAssess == FilterFiles \/ AssessImpact

SpecAssess == InitAssess /\ [][NextAssess]_vars

(***************************************************************************)
(* issue-detector.js: detectIssues, on texts as sequences of characters.   *)
(* SpecIssues: one call on a title, a body, an owner and a repo drawn at   *)
(* the start.                                                              *)
(***************************************************************************)
JIRA_PREFIXES == << <<"D", "E", "V">>, <<"P", "S">>, <<"S", "E", "C">>, <<"I", "N", "F", "R", "A">>, <<"Q", "A">>, <<"O", "P", "S">> >>

JIRA_BASE_URL == <<"h", "t", "t", "p", "s", ":", "/", "/", "w", "e", "b", "o", "o", ".", "a", "t", "l", "a", "s", "s", "i", "a", "n", ".", "n", "e", "t", "/", "b", "r", "o", "w", "s", "e">>

\* \w
IsWordChar(c) ==
    \/ IsDigit(c)
    \/ c = "_"
    \/ \E k \in DOMAIN UpperCase : UpperCase[k] = c \/ LowerCase[k] = c

\* text.toUpperCase()
toUpperCase(text) ==
    [ i \in DOMAIN text |->
        IF \E k \in DOMAIN LowerCase : LowerCase[k] = text[i]
        THEN UpperCase[CHOOSE k \in DOMAIN LowerCase : LowerCase[k] = text[i]]
        ELSE text[i] ]

\* the end of the longest run of digits that starts at i (i - 1 when text[i]
\* is no digit): what \d+ takes
RECURSIVE DigitRunEnd(_, _)
DigitRunEnd(text, i) ==
    IF i <= Len(text) /\ IsDigit(text[i]) THEN DigitRunEnd(text, i + 1) ELSE i - 1

\* (\d+)\b from position i: the digits taken, none when there is no digit or
\* a word character follows the run
NumberAt(text, i) ==
    LET end == DigitRunEnd(text, i)
    IN IF end >= i /\ (end = Len(text) \/ ~IsWordChar(text[end + 1]))
       THEN SubSeq(text, i, end) ELSE <<>>

\* \b(DEV|PS|SEC|INFRA|QA|OPS)-(\d+)\b with flag i, matched at position i: the
\* id built from the match, none when there is no match
JiraIdAt(text, i) ==
    LET fits == { k \in DOMAIN JIRA_PREFIXES :
                    /\ i + Len(JIRA_PREFIXES[k]) <= Len(text)
                    /\ toUpperCase(SubSeq(text, i, i + Len(JIRA_PREFIXES[k]) - 1)) = JIRA_PREFIXES[k]
                    /\ text[i + Len(JIRA_PREFIXES[k])] = "-"
                    /\ NumberAt(text, i + Len(JIRA_PREFIXES[k]) + 1) # <<>> }
    IN IF (i = 1 \/ ~IsWordChar(text[i - 1])) /\ fits # {}
       THEN LET k == CHOOSE k \in fits : TRUE
            IN JIRA_PREFIXES[k] \o <<"-">> \o NumberAt(text, i + Len(JIRA_PREFIXES[k]) + 1)
       ELSE <<>>

\* /(?:^|[^\w/])#(\d+)\b/gm with the # at position i: the number matched
GitHubNumberAt(text, i) ==
    IF /\ text[i] = "#"
       /\ (i = 1 \/ (~IsWordChar(text[i - 1]) /\ text[i - 1] # "/"))
    THEN NumberAt(text, i + 1) ELSE <<>>

\* /^(\d)\1+$/.test(number)
AllSameDigit(number) ==
    Len(number) >= 2 /\ \A i \in DOMAIN number : number[i] = number[1]

\* lines 65-76: the number gets past every continue
KeepsGitHubNumber(number) ==
    /\ ~(parseInt(number) < 1 \/ parseInt(number) > 99999)
    /\ ~(Len(number) <= 4 \/ Len(number) = 6)
    /\ ~AllSameDigit(number)
    /\ ~(parseInt(number) < 100)

\* the order of a.id.localeCompare(b.id) on the ids of one type: punctuation
\* before digits before letters, a prefix before its extensions
CollationRank(c) ==
    IF IsDigit(c) THEN 1 + DigitValue(c)
    ELSE IF \E k \in DOMAIN UpperCase : UpperCase[k] = c
    THEN 11 + (CHOOSE k \in DOMAIN UpperCase : UpperCase[k] = c)
    ELSE 0

localeCompareLess(a, b) ==
    \E k \in 1..(Min(Len(a), Len(b)) + 1) :
        /\ \A j \in 1..(k - 1) : a[j] = b[j]
        /\ \/ k > Len(a) /\ k <= Len(b)
           \/ k <= Len(a) /\ k <= Len(b) /\ CollationRank(a[k]) < CollationRank(b[k])

RECURSIVE SortIds(_)
SortIds(ids) ==
    IF ids = {} THEN <<>>
    ELSE LET first == CHOOSE x \in ids : \A y \in ids : y = x \/ localeCompareLess(x, y)
         IN <<first>> \o SortIds(ids \ {first})

JiraIssue(id) == [id |-> id, url |-> JIRA_BASE_URL \o <<"/">> \o id, type |-> "jira"]

GitHubIssue(number, owner, repo) ==
    [id |-> <<"#">> \o number,
     url |-> <<"h", "t", "t", "p", "s", ":", "/", "/", "g", "i", "t", "h", "u", "b", ".", "c", "o", "m", "/">> \o owner \o <<"/">> \o repo \o <<"/", "i", "s", "s", "u", "e", "s", "/">> \o number,
     type |-> "github"]

\* detectIssues without commit messages and diff: the sources are the title,
\* the body and an empty text joined by line feeds; the map is keyed by id, so
\* each id is kept once; the result has the Jira entries, then the GitHub ones,
\* each group in the order of localeCompare
detectIssues(prTitle, prBody, owner, repo) ==
    LET sources == prTitle \o <<"\n">> \o prBody \o <<"\n">>
        jiraIds == { JiraIdAt(sources, i) : i \in DOMAIN sources } \ {<<>>}
        numbers == { n \in { GitHubNumberAt(sources, i) : i \in DOMAIN sources } \ {<<>>} :
                       KeepsGitHubNumber(n) /\ owner # <<>> /\ repo # <<>> }
        jira == SortIds(jiraIds)
        github == SortIds({ <<"#">> \o n : n \in numbers })
    IN [ i \in DOMAIN jira |-> JiraIssue(jira[i]) ]
       \o [ i \in DOMAIN github |-> GitHubIssue(Tail(github[i]), owner, repo) ]

IssueTitles ==
    { <<"F", "i", "x", " ", "#", "1", "2", "3">>, <<"F", "i", "x", " ", "#", "1", "0", "0">>, <<"F", "i", "x", " ", "#", "5", "0", " ", "a", "n", "d", " ", "D", "E", "V", "-", "1", "0", "0">>, <<"F", "i", "x", " ", "#", "1", "2", "3", "4", "5">>,
      <<"D", "E", "V", "-", "8", "4", "7", ":", " ", "c", "o", "l", "o", "u", "r", " ", "#", "9", "9", "9", "9", "9", " ", "f", "o", "r", " ", "#", "2", "0", "0", "0", "1", ",", " ", "p", "s", "-", "4", "5", "6">>, <<"S", "e", "e", " ", "a", "#", "1", "2", "3", "4", "5", " ", "a", "n", "d", " ", "/", "#", "5", "4", "3", "2", "1">>,
      <<"B", "u", "m", "p", " ", "#", "1", "2", "3", "4", "5", "6", ",", " ", "#", "1", "2", "3", "4", "5", "x">>, <<"U", "p", "d", "a", "t", "e", " ", "D", "E", "V", "-", " ", "f", "i", "l", "e">> }

IssueBodies ==
    { <<>>, <<"C", "l", "o", "s", "e", "s", " ", "#", "5", "4", "3", "2", "1", " ", "a", "n", "d", " ", "#", "1", "2", "3", "4", "5", ".">>, <<"N", "O", "T", "A", "P", "R", "E", "F", "I", "X", "-", "1", "2", "3", ",", " ", "S", "E", "C", "-", "7", " ", "a", "n", "d", " ", "s", "e", "c", "-", "7">> }

IssueOwners == { <<>>, <<"F", "l", "i", "p", "l", "e", "t">> }

IssueRepos == { <<>>, <<"f", "l", "i", "p", "l", "e", "t", "-", "a", "p", "i">> }

IssueCalls ==
    { [fn |-> "detectIssues", prTitle |-> t, prBody |-> b, owner |-> o, repo |-> r,
       returned |-> FALSE, issues |-> <<>>]
      : t \in IssueTitles, b \in IssueBodies, o \in IssueOwners, r \in IssueRepos }

CallDetectIssues ==
    /\ call.fn = "detectIssues" /\ ~call.returned
    /\ call' = [call EXCEPT !.returned = TRUE,
                            !.issues = detectIssues(call.prTitle, call.prBody, call.owner, call.repo)]
    /\ UNCHANGED <<wr, reviews, headSha, proc, apiLog, rn>>

InitIssues ==
    /\ call \in IssueCalls
    /\ RetryAtRest /\ PostAtRest /\ RunAtRest

NextIssues == CallDetectIssues

SpecIssues == InitIssues /\ [][NextIssues]_vars

(***************************************************************************)
(* Claims about withRetry, under SpecRetry.                                *)
(***************************************************************************)
\* the status withRetry reads of the error of the i-th invocation of fn
OutcomeStatus(i) ==
    LET e == wr.outcomes[i].err
    IN IF e.status # 0 THEN e.status ELSE IF e.statusCode # 0 THEN e.statusCode ELSE e.errorStatus

\* the i-th invocation failed and withRetry went on to wait and call again
Retried(i) == ~wr.outcomes[i].ok /\ i <= Len(wr.delays)

\* transient as the claim has it: the rate limit, the whole 5xx class, a
\* connection reset or timeout
TransientBy5xxClass(i) ==
    \/ OutcomeStatus(i) = 429
    \/ OutcomeStatus(i) >= 500 /\ OutcomeStatus(i) <= 599
    \/ wr.outcomes[i].err.code \in {"ECONNRESET", "ETIMEDOUT"}

\* transient as the list of the code has it
TransientByList(i) ==
    \/ OutcomeStatus(i) \in {429, 500, 502, 503, 529}
    \/ wr.outcomes[i].err.code \in {"ECONNRESET", "ETIMEDOUT"}

\* C7 as stated: a failed invocation (with attempts left) is retried exactly
\* when its error is a 429, any 5xx, ECONNRESET or ETIMEDOUT.
C7_RetriesWhole5xxClass ==
    \A i \in DOMAIN wr.outcomes :
        (~wr.outcomes[i].ok /\ i < wr.maxRetries) => (Retried(i) <=> TransientBy5xxClass(i))

\* C7 as amended: a failed invocation is retried exactly when attempts are
\* left and its status is one of 429, 500, 502, 503, 529 or its code is
\* ECONNRESET or ETIMEDOUT; every other error (401, 422, and the other 5xx
\* such as 501 and 504) is rethrown at once, and is the error thrown.
C7_RetryClassification ==
    \A i \in DOMAIN wr.outcomes :
        ~wr.outcomes[i].ok =>
            /\ Retried(i) <=> (TransientByList(i) /\ i < wr.maxRetries)
            /\ ~TransientByList(i) =>
                 /\ wr.state = "thrown"
                 /\ i = Len(wr.outcomes)
                 /\ wr.thrown = wr.outcomes[i].err

\* a 529 was retried and the 504 that followed was rethrown with an attempt left
C7_Witness ==
    /\ wr.maxRetries = 3
    /\ Len(wr.outcomes) = 2
    /\ OutcomeStatus(1) = 529 /\ Retried(1)
    /\ OutcomeStatus(2) = 504 /\ wr.state = "thrown"

\* C8: with maxRetries n >= 1, fn is invoked at most n times; a success ends
\* the invocation and is the last call; a first error that is not transient
\* ends it after one call; if every call fails with a transient error there
\* are exactly n calls and the last error is thrown; the wait after the k-th
\* failed attempt is baseDelay * 2^(k-1).
C8_BoundedRetry ==
    wr.maxRetries >= 1 =>
        /\ Len(wr.outcomes) <= wr.maxRetries
        /\ wr.attempt <= wr.maxRetries
        /\ \A i \in DOMAIN wr.outcomes :
              wr.outcomes[i].ok => (i = Len(wr.outcomes) /\ wr.state = "returned")
        /\ wr.state = "returned" => wr.outcomes[Len(wr.outcomes)].ok
        /\ (Len(wr.outcomes) >= 1 /\ ~wr.outcomes[1].ok /\ ~TransientByList(1))
              => (Len(wr.outcomes) = 1 /\ wr.state = "thrown")
        /\ (wr.state \in {"returned", "thrown"}
              /\ \A i \in DOMAIN wr.outcomes : ~wr.outcomes[i].ok /\ TransientByList(i))
              => /\ Len(wr.outcomes) = wr.maxRetries
                 /\ wr.state = "thrown"
                 /\ wr.thrown = wr.outcomes[wr.maxRetries].err
        /\ \A k \in DOMAIN wr.delays : wr.delays[k] = wr.baseDelay * 2^(k - 1)
        /\ wr.state = "waiting" => Len(wr.delays) = wr.attempt
        /\ wr.state = "calling" => Len(wr.delays) = wr.attempt - 1

\* three transient failures with maxRetries 3: three calls, waits of 1000 and
\* 2000 ms, the last error thrown
C8_Witness ==
    /\ wr.maxRetries = 3 /\ wr.baseDelay = 1000
    /\ wr.state = "thrown"
    /\ Len(wr.outcomes) = 3
    /\ \A i \in 1..3 : TransientByList(i)
    /\ wr.delays = <<1000, 2000>>

(***************************************************************************)
(* Claims about postReview, under SpecPost.                                *)
(***************************************************************************)
\* a review that is the bot's and carries the marker, as the claims put it
ByThisSystem(r) ==
    r.login = "github-actions[bot]" /\ \E i \in DOMAIN r.body : r.body[i].text = "## AI Code Review"

Binding(r) == r.state \in {"APPROVED", "CHANGES_REQUESTED"}

\* the first run returned having posted a review
FirstRunPosted == proc[1].pc = "done" /\ proc[1].result.event # "SKIPPED"

\* C1: when the first run has posted and the second run finds the same head
\* commit, exactly one review has been created in all: the second run makes no
\* call but pulls.get and the listReviews of the duplicate check, creates
\* nothing, and when it returns it returns SKIPPED with commentCount 0.
C1_IdempotentPosting ==
    (FirstRunPosted /\ proc[2].commitId = proc[1].commitId) =>
        /\ proc[1].created = 1
        /\ proc[2].created = 0
        /\ Len(reviews) = Len(proc[1].before) + 1
        /\ proc[2].pc \in {"dup_list", "done", "thrown"}
        /\ \A k \in DOMAIN apiLog[2] : apiLog[2][k].op \in {"get", "list_dup"}
        /\ proc[2].pc = "done" => proc[2].result = [event |-> "SKIPPED", commentCount |-> 0]

\* the first run posted through the body-only fallback, its review lies on the
\* second page, and the second run returned SKIPPED
C1_Witness ==
    /\ FirstRunPosted
    /\ proc[2].pc = "done" /\ proc[2].result.event = "SKIPPED"
    /\ Len(reviews) > perPage
    /\ \E i \in DOMAIN reviews[Len(reviews)].body : reviews[Len(reviews)].body[i].kind = "rule"

\* the first run posted with its inline comments and the second returned SKIPPED
C1_WitnessInline ==
    /\ FirstRunPosted /\ proc[1].result.commentCount > 0
    /\ proc[2].pc = "done" /\ proc[2].result.event = "SKIPPED"
    /\ \A i \in DOMAIN reviews[Len(reviews)].body : reviews[Len(reviews)].body[i].kind # "rule"

\* the reviews a run has to dismiss: those that existed when it started, are
\* by this system and are approved or changes-requested
ToDismiss(p) ==
    { proc[p].before[i].id : i \in { i \in DOMAIN proc[p].before :
                                       ByThisSystem(proc[p].before[i]) /\ Binding(proc[p].before[i]) } }

DismissAttempted(p, upTo) ==
    { apiLog[p][j].id : j \in { j \in 1..upTo : apiLog[p][j].op = "dismiss" } }

\* C5: when createReview is issued and whenever it is called, dismissReview
\* has been attempted for every binding review by this system on any page;
\* dismissReview is only ever called for such a review (never for a review in
\* another state or by another author); and the dismissal pass comes after a
\* duplicate check that found no review by this system on the head commit.
C5_DismissalOrdering ==
    \A p \in Procs :
        /\ proc[p].pc = "create" => ToDismiss(p) \subseteq DismissAttempted(p, Len(apiLog[p]))
        /\ \A k \in DOMAIN apiLog[p] :
              /\ apiLog[p][k].op = "create" => ToDismiss(p) \subseteq DismissAttempted(p, k - 1)
              /\ apiLog[p][k].op = "dismiss" => apiLog[p][k].id \in ToDismiss(p)
              /\ apiLog[p][k].op \in {"list_dismiss", "dismiss"} =>
                    /\ \E j \in 1..(k - 1) : apiLog[p][j].op = "list_dup" /\ apiLog[p][j].ok
                    /\ \A j \in 1..(k - 1) : apiLog[p][j].op # "create"
                    /\ ~ \E i \in DOMAIN proc[p].before :
                           ByThisSystem(proc[p].before[i]) /\ proc[p].before[i].commit_id = proc[p].commitId

\* a run called createReview after dismissing a review from the second page,
\* leaving another author's changes-requested review alone
C5_Witness ==
    \E p \in Procs :
        /\ \E k \in DOMAIN apiLog[p] :
              /\ apiLog[p][k].op = "create"
              /\ \E j \in 1..(k - 1) : apiLog[p][j].op = "dismiss" /\ apiLog[p][j].id > perPage
        /\ \E i \in DOMAIN proc[p].before :
              /\ proc[p].before[i].login # "github-actions[bot]"
              /\ Binding(proc[p].before[i])
              /\ reviews[i].state = proc[p].before[i].state

IsInline(e) == e.op = "create" /\ e.withComments

IsFallback(e) == e.op = "create" /\ ~e.withComments

\* the text a comment is formatted to in the body of the fallback
FormattedAs(part, c) ==
    /\ part.kind = "comment"
    /\ part.path = c.path /\ part.line = c.line /\ part.text = c.body
    /\ part.severity = c.severity

\* C6: a body-only createReview is only ever sent right after the submission
\* with inline comments was rejected with status 422 while carrying at least one
\* inline comment; it has no comments field, the same commit and event, and its
\* body is the original body followed by all of the verdict's comments as text;
\* after it the inline submission is not tried again.  Every other rejection of
\* createReview that withRetry rethrows is thrown to the caller.
C6_SubmissionFallback ==
    \A p \in Procs :
        LET log == apiLog[p]
            r == proc[p]
            last == log[Len(log)]
        IN /\ \A k \in DOMAIN log : IsFallback(log[k]) =>
                /\ k > 1
                /\ IsFallback(log[k - 1]) \/
                     (IsInline(log[k - 1]) /\ log[k - 1].status = 422 /\ Len(log[k - 1].comments) > 0)
                /\ \E j \in 1..(k - 1) :
                      /\ IsInline(log[j])
                      /\ log[k].commit_id = log[j].commit_id
                      /\ log[k].event = log[j].event
                      /\ SubSeq(log[k].body, 1, Len(log[j].body)) = log[j].body
                      /\ Len(log[k].body) > Len(log[j].body)
                /\ log[k].comments = <<>>
                /\ \A j \in (k + 1)..Len(log) : IsFallback(log[j])
           /\ r.pc \in {"fb_create", "fb_wait"} =>
                /\ \E j \in DOMAIN log :
                      /\ IsInline(log[j])
                      /\ Len(r.body) = Len(log[j].body) + 2 + Len(r.review.comments)
                      /\ SubSeq(r.body, 1, Len(log[j].body)) = log[j].body
                      /\ \A i \in DOMAIN r.review.comments :
                            FormattedAs(r.body[Len(log[j].body) + 2 + i], r.review.comments[i])
                /\ \A k \in DOMAIN log : IsFallback(log[k]) => log[k].body = r.body
           /\ (Len(log) > 0 /\ last.op = "create" /\ ~last.ok) =>
                /\ r.pc \in {"thrown", "create_wait", "create", "fb_create", "fb_wait"}
                /\ r.pc = "thrown" => (r.err.status = last.status /\ r.created = 0)
                /\ (IsInline(last) /\ last.status = 422 /\ Len(last.comments) > 0) => r.pc = "fb_create"
                /\ (IsInline(last) /\ last.status = 422 /\ Len(last.comments) = 0) => r.pc = "thrown"
                /\ (IsInline(last) /\ last.status = 401) => r.pc = "thrown"
                /\ (IsFallback(last) /\ last.status \in {401, 422}) => r.pc = "thrown"
                /\ r.pc \in {"create_wait", "fb_wait"} => r.attempt < 2
                /\ r.pc \in {"create_wait", "create"} => (IsInline(last) /\ last.status = 503)
                /\ r.pc = "fb_wait" => (IsFallback(last) /\ last.status = 503)

\* the inline submission was rejected with 422, and the body-only submission
\* went through carrying a comment that was not among the inline ones
C6_Witness ==
    \E p \in Procs :
        LET log == apiLog[p]
        IN /\ proc[p].pc = "done" /\ proc[p].created = 1
           /\ Len(log) > 1
           /\ IsFallback(log[Len(log)]) /\ log[Len(log)].ok
           /\ IsInline(log[Len(log) - 1]) /\ log[Len(log) - 1].status = 422
           /\ \E i \in DOMAIN log[Len(log)].body :
                 /\ log[Len(log)].body[i].kind = "comment"
                 /\ \A c \in DOMAIN log[Len(log) - 1].comments :
                       log[Len(log) - 1].comments[c].path # log[Len(log)].body[i].path
(***************************************************************************)
(* Claims about the pure functions of github-poster.js, under SpecPure.    *)
(***************************************************************************)
\* a diff file carries the path and one of its addition changes the line
OnAdditionLine(c, diffFiles) ==
    \E f \in DOMAIN diffFiles :
        /\ diffFiles[f].path = c.path
        /\ \E h \in DOMAIN diffFiles[f].hunks :
              \E k \in DOMAIN diffFiles[f].hunks[h].changes :
                  /\ diffFiles[f].hunks[h].changes[k].type = "addition"
                  /\ diffFiles[f].hunks[h].changes[k].line = c.line

OnOtherLineOnly(c, diffFiles) ==
    /\ ~OnAdditionLine(c, diffFiles)
    /\ \E f \in DOMAIN diffFiles :
        /\ diffFiles[f].path = c.path
        /\ \E h \in DOMAIN diffFiles[f].hunks :
              \E k \in DOMAIN diffFiles[f].hunks[h].changes :
                  LET ch == diffFiles[f].hunks[h].changes[k]
                  IN \/ ch.type = "deletion" /\ ch.line = c.line
                     \/ ch.type = "context" /\ (ch.newLine = c.line \/ ch.oldLine = c.line)

\* C2: buildReviewComments keeps a comment iff its path is a diff file's and
\* its line is the line of an addition of that file; comments on context or
\* deletion lines only, or on unknown paths, are dropped; every kept comment
\* has side RIGHT and the kept comments are in their input order.
C2_CommentReconciliation ==
    (call.fn = "buildReviewComments" /\ call.returned) =>
        LET kept == SelectSeq(call.comments, LAMBDA c : OnAdditionLine(c, call.diffFiles))
            out == call.comments_out
        IN /\ Len(out) = Len(kept)
           /\ \A i \in DOMAIN out :
                 out[i] = [path |-> kept[i].path, line |-> kept[i].line,
                           side |-> "RIGHT", body |-> kept[i].body]
           /\ \A i \in DOMAIN call.comments :
                 LET c == call.comments[i]
                 IN (\/ OnOtherLineOnly(c, call.diffFiles)
                     \/ \A f \in DOMAIN call.diffFiles : call.diffFiles[f].path # c.path)
                    => \A j \in DOMAIN out : ~(out[j].path = c.path /\ out[j].line = c.line)

\* a dropped context-line comment between two kept comments, the later kept
\* comment on another file than the earlier
C2_Witness ==
    /\ call.fn = "buildReviewComments" /\ call.returned
    /\ Len(call.comments) = 3 /\ Len(call.comments_out) = 2
    /\ OnOtherLineOnly(call.comments[2], call.diffFiles)
    /\ call.comments_out[1].path # call.comments_out[2].path
    /\ call.comments_out[1].body = call.comments[1].body

\* C4: mapApprovalToEvent gives APPROVE for 'approve' under every mode,
\* REQUEST_CHANGES for 'request_changes' exactly under 'can-request-changes'
\* and COMMENT under any other mode, and COMMENT for 'comment' and for every
\* other approval value.
C4_EventMapping ==
    (call.fn = "mapApprovalToEvent" /\ call.returned) =>
        /\ call.approval = "approve" => call.event = "APPROVE"
        /\ (call.approval = "request_changes" /\ call.reviewMode = "can-request-changes")
               => call.event = "REQUEST_CHANGES"
        /\ (call.approval = "request_changes" /\ call.reviewMode # "can-request-changes")
               => call.event = "COMMENT"
        /\ call.approval \notin {"approve", "request_changes"} => call.event = "COMMENT"

\* a blocking verdict downgraded under a mode that does not permit blocking
C4_Witness ==
    /\ call.fn = "mapApprovalToEvent" /\ call.returned
    /\ call.approval = "request_changes" /\ call.reviewMode = "comment-only"
    /\ call.event = "COMMENT"

(***************************************************************************)
(* Claims about truncateDiff, under SpecBudget.                            *)
(***************************************************************************)
Cost(file) == estimateTokens(formatFileForPrompt(file))

RECURSIVE SumCost(_, _)
SumCost(files, i) == IF i > Len(files) THEN 0 ELSE Cost(files[i]) + SumCost(files, i + 1)

BudgetReturned == call.fn = "truncateDiff" /\ call.returned

\* C3: the result of truncateDiff has estimatedTokens <= maxTokens, where
\* estimatedTokens is the sum of the formatted costs of the included files,
\* whole or partial.
C3_BudgetMonotonicity ==
    BudgetReturned =>
        /\ call.result.estimatedTokens = SumCost(call.result.files, 1)
        /\ call.result.estimatedTokens <= call.maxTokens

\* the files of the input other than the one at index o
Others(files, o) == { i \in DOMAIN files : i # o }

\* one file costs far more than the budget (over twice), and at least two
\* others each cost no more than the budget
Skewed(files, maxTokens, o) ==
    /\ o \in DOMAIN files
    /\ Cost(files[o]) > 2 * maxTokens
    /\ Cardinality(Others(files, o)) >= 2
    /\ \A i \in Others(files, o) : Cost(files[i]) <= maxTokens

IncludedWhole(file, result) == \E k \in DOMAIN result.files : result.files[k] = file

\* the cost of what the result includes of the file of a path, 0 when nothing
IncludedCost(path, result) ==
    IF \E k \in DOMAIN result.files : result.files[k].path = path
    THEN Cost(result.files[CHOOSE k \in DOMAIN result.files : result.files[k].path = path])
    ELSE 0

RECURSIVE SumOthers(_, _, _)
SumOthers(files, o, i) ==
    IF i > Len(files) THEN 0
    ELSE (IF i = o THEN 0 ELSE Cost(files[i])) + SumOthers(files, o, i + 1)

\* C10 as stated: with one file far over the budget and several small files
\* each within it, the result includes every small file, whatever the budget
\* and the priority of the oversized file.
C10_SmallFilesAlwaysIncluded ==
    BudgetReturned =>
        \A o \in DOMAIN call.files :
            Skewed(call.files, call.maxTokens, o) =>
                \A i \in Others(call.files, o) : IncludedWhole(call.files[i], call.result)

\* C10, amended: with one file far over the budget and several small files,
\* the result includes every small file whenever the small files together
\* with the included part of the oversized file cost no more than the budget.
C10_SmallFilesIncludedWhenTheyFit ==
    BudgetReturned =>
        \A o \in DOMAIN call.files :
            ( /\ Skewed(call.files, call.maxTokens, o)
              /\ SumOthers(call.files, o, 1) + IncludedCost(call.files[o].path, call.result)
                    <= call.maxTokens )
            => \A i \in Others(call.files, o) : IncludedWhole(call.files[i], call.result)

\* the oversized file is partly included between a small file of higher
\* priority and one of lower priority, both included
C10_Witness ==
    /\ BudgetReturned
    /\ Len(call.files) = 3 /\ Len(call.result.files) = 3
    /\ \E o \in DOMAIN call.files :
         /\ Skewed(call.files, call.maxTokens, o)
         /\ call.result.files[2].path = call.files[o].path
         /\ call.result.files[2].truncated
         /\ \A i \in Others(call.files, o) : IncludedWhole(call.files[i], call.result)

(***************************************************************************)
(* Claims about run(), under SpecRun.                                      *)
(***************************************************************************)
RunSteps == {"get_meta", "get_diff", "triage", "review", "post"}

\* C9: whatever step of run() fails (the PR metadata, the diff, the triage or
\* review call after its retries, the posting), the error is caught at top
\* level and the process exits with code 0; no run exits with another code.
C9_CleanExit ==
    /\ rn.exited => rn.exitCode = 0
    /\ rn.pc = "rejected" => rn.failedAt \in RunSteps /\ ~rn.exited
    /\ (rn.exited /\ rn.failedAt # "") =>
          /\ rn.failedAt \in RunSteps
          /\ rn.logged = "AI Review failed:"
          /\ rn.err \in RunErrors

\* the review call failed on its last attempt with a transient error, after
\* the triage pass, and the process has exited
C9_Witness ==
    /\ rn.exited /\ rn.failedAt = "review" /\ rn.in.shouldTriage
    /\ rn.attempt = ReviewMaxRetries /\ isRetryable(rn.err)
    /\ rn.exitCode = 0

(***************************************************************************)
(* Claims about filePriority, under SpecPriority.                          *)
(***************************************************************************)
\* the file at index a comes before the file at index b in the sorted list
ConsideredBefore(a, b) ==
    \E i, j \in DOMAIN call.sorted :
        i < j /\ call.sorted[i] = call.files[a] /\ call.sorted[j] = call.files[b]

\* C11: a security-sensitive file has a higher priority than any file that
\* is not, and is considered first, whatever their change volumes; among
\* files of equal security status a core file outranks a file that is not.
C11_LexicographicPriority ==
    (call.fn = "filePriority" /\ call.returned) =>
        \A a, b \in DOMAIN call.files :
            /\ (isSecurityFile(call.files[a].path) /\ ~isSecurityFile(call.files[b].path))
                  => /\ call.priorities[a] > call.priorities[b]
                     /\ ConsideredBefore(a, b)
            /\ ( /\ isSecurityFile(call.files[a].path) = isSecurityFile(call.files[b].path)
                 /\ isCoreFile(call.files[a].path) /\ ~isCoreFile(call.files[b].path) )
                  => call.priorities[a] > call.priorities[b]

(***************************************************************************)
(* Claims about parseDiff, under SpecParse.                                *)
(***************************************************************************)
\* the changes of a hunk with the line numbers of the unified diff format:
\* old and new counters start at the hunk's start lines; an addition takes
\* the new line, a deletion the old line, a context line both
RECURSIVE NumberedChanges(_, _, _, _)
NumberedChanges(changes, i, old, new) ==
    IF i > Len(changes) THEN <<>>
    ELSE LET c == changes[i]
         IN IF c.type = "addition"
            THEN << Addition(new, c.content) >> \o NumberedChanges(changes, i + 1, old, new + 1)
            ELSE IF c.type = "deletion"
            THEN << Deletion(old, c.content) >> \o NumberedChanges(changes, i + 1, old + 1, new)
            ELSE << Context(old, new, c.content) >> \o NumberedChanges(changes, i + 1, old + 1, new + 1)

\* the File that an entry with a new side describes
FileOfEntry(e) ==
    File(e.path, e.status,
         [ h \in DOMAIN e.hunks |->
             Hunk(RenderHunkHeader(e.hunks[h]),
                  NumberedChanges(e.hunks[h].changes, 1, e.hunks[h].oldStart, e.hunks[h].newStart)) ])

ParseReturned == call.fn = "parseDiff" /\ call.returned

\* C12: parseDiff of a diff rendered from entries that all have a new side
\* returns exactly those files: paths, statuses, hunks, changes with kind,
\* content and line numbers, and additions/deletions counting '+'/'-' lines.
C12_DiffRoundTrip ==
    (ParseReturned /\ \A i \in DOMAIN call.entries : HasNewSide(call.entries[i])) =>
        call.files = [ i \in DOMAIN call.entries |-> FileOfEntry(call.entries[i]) ]

\* the entries that have no new side: deleted, or without '+++' line
Isolated(entries) == { i \in DOMAIN entries : ~HasNewSide(entries[i]) }

\* C13: an entry whose new side is /dev/null, or that has no '+++ b/' line,
\* contributes no File, and none of its hunks or lines go to another file:
\* the files returned are exactly those of the other entries, each with the
\* hunks, additions and deletions of its own entry.
C13_DeletedEntryIsolation ==
    (ParseReturned /\ Isolated(call.entries) # {}) =>
        LET valid == SelectSeq(call.entries, HasNewSide)
        IN call.files = [ i \in DOMAIN valid |-> FileOfEntry(valid[i]) ]

\* a deleted entry of two deleted lines between a modified and an added file
C13_Witness ==
    /\ ParseReturned
    /\ Len(call.entries) = 3 /\ Len(call.files) = 2
    /\ call.entries[2].status = "deleted"
    /\ Len(call.entries[2].hunks[1].changes) = 2
    /\ call.entries[1].status = "modified" /\ Len(call.files[1].hunks) = 2
    /\ call.files[1].deletions = 1

(***************************************************************************)
(* Claims about assessPlatformImpact, under SpecImpact.                    *)
(***************************************************************************)
\* low < medium < high < critical
RiskRank(level) ==
    IF level = "critical" THEN 4 ELSE IF level = "high" THEN 3
    ELSE IF level = "medium" THEN 2 ELSE IF level = "low" THEN 1 ELSE 0

\* the floors of the signals that a set of paths triggers, and 'low'
Floors(paths, taxonomy) ==
    {"low"}
      \cup { taxonomy[k].risk : k \in { c \in DOMAIN taxonomy : taxonomy[c].paths \cap paths # {} } }
      \cup (IF paths \cap (AuthPaths \cup DataSourcePaths) # {} THEN {"high"} ELSE {})
      \cup (IF paths \cap (MiddlewarePaths \cup MigrationPaths) # {} THEN {"critical"} ELSE {})
      \cup (IF paths \cap (RoutePaths \cup DependencyPaths) # {} THEN {"medium"} ELSE {})

MaxLevel(levels) == CHOOSE l \in levels : \A m \in levels : RiskRank(m) <= RiskRank(l)

\* C14: the level returned is the maximum, under critical > high > medium >
\* low, of 'low' and the floors of all triggered signals, whatever the order
\* of the files; and the running level never decreases.
C14_ImpactLevelIsMaximum ==
    call.fn = "assessPlatformImpact" =>
        /\ call.returned =>
              call.overallLevel = MaxLevel(Floors(Range(call.files), call.taxonomy))
        /\ \A k \in 1..(Len(call.levels) - 1) :
              RiskRank(call.levels[k]) <= RiskRank(call.levels[k + 1])
        /\ call.overallLevel = call.levels[Len(call.levels)]

\* a critical file first, then a route file and the dependency manifest,
\* whose lower floors leave the level critical
C14_Witness ==
    /\ call.fn = "assessPlatformImpact" /\ call.returned
    /\ Len(call.files) = 3
    /\ call.files[1] \in MigrationPaths
    /\ call.files[2] \in RoutePaths
    /\ call.files[3] \in DependencyPaths
    /\ call.taxonomy # <<>>
    /\ call.overallLevel = "critical"
    /\ call.flags.affectsRoutes /\ call.flags.affectsDependencies

(***************************************************************************)
(* Claims about scorePRComplexity, under SpecScore.                        *)
(***************************************************************************)
\* the points of the rubric, each condition evaluated on its own
RubricPoints(c) ==
    LET changes(f) == f.additions + f.deletions
        paths == { c.files[i].path : i \in DOMAIN c.files }
        RECURSIVE Sum(_, _)
        Sum(n, i) == IF i = 0 THEN 0
                     ELSE Sum(n, i - 1) + (IF n = "hunks" THEN Len(c.files[i].hunks)
                                           ELSE changes(c.files[i]))
        total == Sum("changes", Len(c.files))
        hunks == Sum("hunks", Len(c.files))
    IN  (IF total > 200 THEN 20 ELSE 0)
      + (IF Cardinality(DOMAIN c.files) > 10 THEN 15 ELSE 0)
      + (IF "src/auth.js" \in paths THEN 25 ELSE 0)
      + (IF c.prTitle = Text(<<"R", "E", "F", "A", "C", "T", "O", "R", " ", "a", "p", "i">>)
            \/ c.prBody = Text(<<"n", "e", "w", " ", "S", "c", "h", "e", "m", "a">>) THEN 15 ELSE 0)
      + (IF hunks > 20 THEN 10 ELSE 0)
      + (IF \E i \in DOMAIN c.files : changes(c.files[i]) > 100 THEN 15 ELSE 0)
      + (IF c.platformImpact = null THEN 0
         ELSE (IF c.platformImpact.level = "critical" THEN 30 ELSE 0)
            + (IF c.platformImpact.level = "high" THEN 20 ELSE 0)
            + (IF c.platformImpact.level = "medium" THEN 10 ELSE 0)
            + (IF c.platformImpact.affectsSchema THEN 15 ELSE 0))

\* C15: scorePRComplexity returns min(100, S), S the sum of the points of
\* the rubric; the result is an integer in [0, 100], and 0 for a small
\* non-security single-file diff without keyword and without impact.
C15_ComplexityRubric ==
    (call.fn = "scorePRComplexity" /\ call.returned) =>
        /\ call.score = (IF RubricPoints(call) < 100 THEN RubricPoints(call) ELSE 100)
        /\ call.score \in 0..100
        /\ ( /\ Len(call.files) = 1
             /\ call.files[1].path = "src/utils.js"
             /\ call.prTitle \in {null, Text(<<"F", "i", "x", " ", "t", "y", "p", "o">>)}
             /\ call.prBody \in {null, Text(<<"s", "m", "a", "l", "l", " ", "f", "i", "x">>)}
             /\ call.platformImpact = null ) => call.score = 0

\* every condition of the rubric holds at once: 145 points, clamped to 100
C15_Witness ==
    /\ call.fn = "scorePRComplexity" /\ call.returned /\ call.score = 100
    /\ RubricPoints(call) = 145

(***************************************************************************)
(* Claims about parseToolResponse and parseReviewResponse, under           *)
(* SpecValidate.                                                           *)
(***************************************************************************)
\* the verdict object of the response: the input of its submit_review block,
\* or else what its text block parses to
RawOf(response) ==
    LET tool == FindBlock(response.content, "tool_use")
        text == FindBlock(response.content, "text")
    IN IF tool # 0 /\ response.content[tool].name = "submit_review"
       THEN response.content[tool].input
       ELSE IF text # 0 THEN response.content[text].text.json
       ELSE NotJson

IsObject(raw) == raw # NotJson /\ raw # null

\* C16: validation never throws, and when summary is missing, approval is
\* missing or comments is not an array, the result is the safe fallback
\* verdict (approval 'comment', no comments, the parsing-error summary).
C16_SafeFallback ==
    (call.fn = "parseToolResponse" /\ call.done) =>
        /\ ~call.outcome.threw
        /\ LET raw == RawOf(call.response)
           IN (\/ ~IsObject(raw)
               \/ raw.summary = undefined
               \/ raw.approval = undefined
               \/ ~isArray(raw.comments))
              => /\ call.outcome.value.approval = Str("comment")
                 /\ call.outcome.value.comments = Arr(<<>>)
                 /\ call.outcome.value.summary = Str(PARSING_ERROR_SUMMARY)

\* a verdict object that passes the structural test: summary, approval and
\* an array of comment objects
StructurallyValid(raw) ==
    /\ IsObject(raw)
    /\ raw.summary # undefined /\ raw.approval # undefined
    /\ isArray(raw.comments)
    /\ \A i \in DOMAIN raw.comments.array : raw.comments.array[i] # null

Missing(v) == v \in {undefined, null, Str("")}

\* the number a line stands for: 0 when it stands for none
LineNumber(line) ==
    IF line = Num(5) THEN 5
    ELSE IF line = Num(0 - 3) THEN 0 - 3
    ELSE IF line = Text(<<"7">>) THEN 7
    ELSE IF line = Text(<<"-", "2">>) THEN 0 - 2 ELSE 0

\* the comments of items at the indices kept, in order, with the lines given
RECURSIVE KeptComments(_, _, _, _)
KeptComments(items, kept, i, lineOf) ==
    IF i > Len(items) THEN <<>>
    ELSE (IF i \in kept
          THEN << [path |-> items[i].path, body |-> items[i].body, line |-> lineOf[i]] >>
          ELSE <<>>) \o KeptComments(items, kept, i + 1, lineOf)

\* path, body and line of the comments of a validated verdict
PathBodyLine(comments) ==
    [ i \in DOMAIN comments |->
        [path |-> comments[i].path, body |-> comments[i].body, line |-> comments[i].line] ]

RECURSIVE KeptSeverities(_, _)
KeptSeverities(items, i) ==
    IF i > Len(items) THEN <<>>
    ELSE (IF \/ Missing(items[i].path) \/ Missing(items[i].body)
             \/ items[i].line \in {undefined, null, Num(0)}
          THEN <<>>
          ELSE << IF items[i].severity \in {Str("critical"), Str("warning"), Str("suggestion")}
                  THEN items[i].severity ELSE Str("suggestion") >>)
         \o KeptSeverities(items, i + 1)

\* C18: every verdict that validation returns has an approval among
\* approve, request_changes and comment, 'comment' when the input had
\* another value; each of its comments has a severity among critical,
\* warning and suggestion, 'suggestion' when the input had another value,
\* and an integer line of at least 1.
C18_EnumCoercion ==
    (call.fn = "parseToolResponse" /\ call.done /\ ~call.outcome.threw) =>
        LET raw == RawOf(call.response)
            verdict == call.outcome.value
            enum == {Str("approve"), Str("request_changes"), Str("comment")}
        IN /\ verdict.approval \in enum
           /\ (~IsObject(raw) \/ raw.approval \notin enum) => verdict.approval = Str("comment")
           /\ isArray(verdict.comments)
           /\ \A i \in DOMAIN verdict.comments.array :
                 /\ verdict.comments.array[i].severity
                      \in {Str("critical"), Str("warning"), Str("suggestion")}
                 /\ verdict.comments.array[i].line \in Nat
                 /\ verdict.comments.array[i].line >= 1
           /\ StructurallyValid(raw) =>
                 [ i \in DOMAIN verdict.comments.array |-> verdict.comments.array[i].severity ]
                   = KeptSeverities(raw.comments.array, 1)

\* a tool input with an unknown approval, a comment of unknown severity and
\* a comment with a negative line
C18_Witness ==
    /\ call.fn = "parseToolResponse" /\ call.done /\ ~call.outcome.threw
    /\ FindBlock(call.response.content, "tool_use") = 1
    /\ LET raw == RawOf(call.response)
       IN /\ StructurallyValid(raw)
          /\ raw.approval = Str("lgtm")
          /\ Len(raw.comments.array) = 2
          /\ raw.comments.array[1].severity = Str("blocker")
          /\ raw.comments.array[2].line = Num(0 - 3)
    /\ call.outcome.value.approval = Str("comment")
    /\ Len(call.outcome.value.comments.array) = 2
    /\ call.outcome.value.comments.array[1].severity = Str("suggestion")
    /\ call.outcome.value.comments.array[2].line = 1

(***************************************************************************)
(* Claims about the truncated flag of truncateDiff, under SpecBudget.      *)
(***************************************************************************)
\* C19: for a single file whose estimated cost exceeds maxTokens,
\* truncateDiff([file], maxTokens) returns truncated = true, whether the
\* file is excluded or included only in part.
C19_TruncationReported ==
    ( /\ call.fn = "truncateDiff" /\ call.returned
      /\ Len(call.files) = 1
      /\ estimateTokens(formatFileForPrompt(call.files[1])) > call.maxTokens )
    => call.result.truncated

(***************************************************************************)
(* Claims about model and thinking selection, under SpecSelect.            *)
(***************************************************************************)
\* automatic model selection, thinking 'auto', no explicit model, and the
\* review has started
AutomaticReview ==
    /\ call.fn = "run" /\ call.pc = "reviewing"
    /\ call.explicitModel = "" /\ call.autoModelSelection /\ call.enableThinking = "auto"

SendsCreate(p) ==
    /\ Len(apiLog'[p]) = Len(apiLog[p]) + 1
    /\ apiLog'[p][Len(apiLog'[p])].op = "create"

\* C24: the event of every createReview request, inline or body-only, is
\* mapApprovalToEvent(review.approval, reviewMode) of the invocation that
\* sends it; so REQUEST_CHANGES is sent only in mode can-request-changes for
\* the verdict request_changes, and the verdict approve without surviving
\* inline comments is sent as APPROVE.
C24_SubmittedEventSafety ==
    [][\A p \in Procs :
         SendsCreate(p) =>
           LET e == apiLog'[p][Len(apiLog'[p])]
               r == proc[p]
           IN /\ e.event = mapApprovalToEvent(r.review.approval, r.reviewMode)
              /\ (r.review.approval # "approve" =>
                    e.event = IF r.review.approval = "request_changes"
                                 /\ r.reviewMode = "can-request-changes"
                              THEN "REQUEST_CHANGES" ELSE "COMMENT")
              /\ (e.event = "REQUEST_CHANGES" =>
                    r.reviewMode = "can-request-changes" /\ r.review.approval = "request_changes")
              /\ (r.review.approval = "approve" /\ Len(r.comments) = 0 => e.event = "APPROVE")
      ]_vars

\* the first run has submitted an approval without inline comments, the
\* second one a request for changes on the body-only path
C24_Witness ==
    /\ proc[1].pc = "done"
    /\ proc[1].result = [event |-> "APPROVE", commentCount |-> 0]
    /\ \E i \in DOMAIN apiLog[2] :
         /\ IsFallback(apiLog[2][i])
         /\ apiLog[2][i].ok
         /\ apiLog[2][i].event = "REQUEST_CHANGES"

(***************************************************************************)
(* Claims about the skip of postReview, under SpecPost.                    *)
(***************************************************************************)
Skipped(p) == proc[p].pc = "done" /\ proc[p].result.event = "SKIPPED"

\* C26: an invocation that returned SKIPPED has made no dismissReview call and
\* no createReview call, and until the next invocation starts the reviews of
\* the PR and their states are what they were when it was called.
C26_SkipLeavesUntouched ==
    \A p \in Procs :
        Skipped(p) =>
          /\ proc[p].created = 0
          /\ \A i \in DOMAIN apiLog[p] : apiLog[p][i].op \in {"get", "list_dup"}
          /\ (\A q \in Procs : q > p => proc[q].pc = "idle") => reviews = proc[p].before

\* the second run skipped, having listed the reviews, while an approval by
\* this system on an earlier commit is still in force
C26_Witness ==
    /\ Skipped(2)
    /\ Len(apiLog[2]) >= 2
    /\ \E i \in DOMAIN reviews :
         ByThisSystem(reviews[i]) /\ Binding(reviews[i]) /\ reviews[i].commit_id = "sha0"

(***************************************************************************)
(* Claims about contradictory verdicts, under SpecPost.                    *)
(***************************************************************************)
\* this step creates a review on the PR
CreatesReview == Len(reviews') = Len(reviews) + 1

\* C25: whenever postReview creates a review, no review that this system
\* submitted earlier on the PR is approved or changes-requested at that
\* moment, whatever the dismissReview calls of the run returned.
C25_NoContradictoryVerdicts ==
    [][CreatesReview =>
         \A i \in DOMAIN reviews : ByThisSystem(reviews[i]) => ~Binding(reviews[i])
      ]_vars

(***************************************************************************)
(* Claims about concurrent invocations of postReview, under SpecRace.      *)
(***************************************************************************)
\* the reviews this system has created on the head commit
CreatedOnHead ==
    { i \in DOMAIN reviews : ByThisSystem(reviews[i]) /\ reviews[i].commit_id = headSha }

\* C27: however the platform calls of two concurrent invocations of
\* postReview on one PR and one head commit interleave, at most one review is
\* created for that commit.
C27_NoDoublePost == Cardinality(CreatedOnHead) <= 1

(***************************************************************************)
(* Claims about the partial inclusion of truncateDiff, under SpecBudget.   *)
(***************************************************************************)
\* the input files in the order truncateDiff scans them
Scanned == sortByPriority(call.files)

OutPaths == { call.result.files[i].path : i \in DOMAIN call.result.files }

OutOf(path) ==
    call.result.files[CHOOSE i \in DOMAIN call.result.files : call.result.files[i].path = path]

\* the cost of what the result holds of the files scanned before the k-th
RECURSIVE UsedBefore(_)
UsedBefore(k) ==
    IF k <= 1 THEN 0
    ELSE UsedBefore(k - 1)
         + (IF Scanned[k - 1].path \in OutPaths
            THEN estimateTokens(formatFileForPrompt(OutOf(Scanned[k - 1].path))) ELSE 0)

\* the cost of the first n hunks of a file
RECURSIVE PrefixCost(_, _)
PrefixCost(file, n) ==
    IF n = 0 THEN 0 ELSE PrefixCost(file, n - 1) + estimateTokens(HunkText(file.hunks[n]))

\* what is left of a budget after the header of a partially included file
LeftAfterHeader(file, remaining) ==
    remaining - estimateTokens("### " \o file.path \o statusLabel(file) \o " (truncated)\n")

\* C28: a file that does not fit is included in part only when more than 200
\* tokens remain; its hunks are then a non-empty prefix of the original hunks,
\* the longest one accepted before the first hunk that costs more than what is
\* left after the header; a file whose first hunk does not fit is left out;
\* and the scan goes on with the following files after a file left out or
\* included in part (a following file that fits is included whole).
C28_PartialInclusion ==
    call.returned =>
      /\ \A i, j \in DOMAIN call.result.files :
            i < j => \E a, b \in DOMAIN Scanned :
                        /\ a < b
                        /\ Scanned[a].path = call.result.files[i].path
                        /\ Scanned[b].path = call.result.files[j].path
      /\ \A k \in DOMAIN Scanned :
            LET f == Scanned[k]
                remaining == call.maxTokens - UsedBefore(k)
                left == LeftAfterHeader(f, remaining)
            IN IF estimateTokens(formatFileForPrompt(f)) <= remaining
               THEN f.path \in OutPaths /\ OutOf(f.path) = f
               ELSE /\ f.path \in OutPaths =>
                         LET out == OutOf(f.path)
                             n == Len(out.hunks)
                         IN /\ remaining > 200
                            /\ out.truncated
                            /\ n >= 1 /\ n <= Len(f.hunks)
                            /\ out.hunks = SubSeq(f.hunks, 1, n)
                            /\ PrefixCost(f, n) <= left
                            /\ n < Len(f.hunks) => PrefixCost(f, n + 1) > left
                    /\ f.path \notin OutPaths =>
                         \/ remaining <= 200
                         \/ Len(f.hunks) = 0
                         \/ PrefixCost(f, 1) > left
                    /\ (Len(f.hunks) > 0 /\ PrefixCost(f, 1) > left) => f.path \notin OutPaths

\* with 250 tokens, the first hunk of src/mixed.js is kept and its second one,
\* which does not fit, ends the file; src/bigfirst.js, whose first hunk does
\* not fit in the 234 tokens left, is left out; src/s1.js, scanned last, is
\* included whole
C28_Witness ==
    /\ call.fn = "truncateDiff" /\ call.returned
    /\ call.maxTokens = 250
    /\ Len(Scanned) = 3
    /\ Scanned[1].path = "src/mixed.js" /\ Scanned[2].path = "src/bigfirst.js"
    /\ Len(call.result.files) = 2
    /\ call.result.files[1].path = "src/mixed.js"
    /\ call.result.files[1].truncated
    /\ Len(call.result.files[1].hunks) = 1
    /\ call.result.files[2] = Scanned[3]
    /\ ~call.result.files[2].truncated

\* C29: when the additions and deletions of every input file count the
\* addition and deletion changes of its hunks, so do those of every file of
\* the result of truncateDiff, a file included in part too.
C29_FileInvariantSurvives ==
    call.returned =>
      \A i \in DOMAIN call.result.files :
          LET f == call.result.files[i]
          IN /\ f.additions = CountType(f.hunks, "addition")
             /\ f.deletions = CountType(f.hunks, "deletion")

(***************************************************************************)
(* Claims about the triage pass, under SpecTriage.                         *)
(***************************************************************************)
\* the estimated cost of the reviewable diff: of all the reviewable files
ReviewableCost == CostOfAll(call.files, 1)

\* C21: whenever the estimated cost of the reviewable diff exceeds 1.5 times
\* the effective diff budget and there are more than 5 reviewable files, the
\* reviewer is called only after the triage pass has run.
C21_TriageTrigger ==
    (/\ call.pc = "reviewing"
     /\ 2 * ReviewableCost > 3 * call.budget
     /\ Len(call.files) > TRIAGE_MIN_FILES)
    => call.triaged

(***************************************************************************)
(* Claims about the retry of platform calls, under SpecPost.               *)
(***************************************************************************)
\* the number of rejected attempts of the call that the log of p ends with
FailedAttemptsOfLast(p) ==
    LET log == apiLog[p]
    IN Cardinality({ i \in DOMAIN log : log[i].op = log[Len(log)].op /\ ~log[i].ok })

\* C22: a platform call of a run that fails with a transient error is tried
\* again before its error is surfaced: an invocation of postReview that threw
\* a transient error has made more than one attempt of the call that failed.
C22_RetryOnEveryPlatformCall ==
    \A p \in Procs :
        (proc[p].pc = "thrown" /\ isRetryable(proc[p].err) /\ Len(apiLog[p]) > 0)
        => FailedAttemptsOfLast(p) > 1

(***************************************************************************)
(* Claims about the impact assessment of a run, under SpecAssess.          *)
(***************************************************************************)
\* the diff of the run changes the root package.json
ChangesPackageJson ==
    \E i \in DOMAIN call.allFiles : PathString(call.allFiles[i]) = "package.json"

\* C30: when the diff of a run changes the root package.json, the impact
\* assessment of the run has affectsDependencies set and a level of medium at
\* least.
C30_DependencyChangesAssessed ==
    (call.pc = "assessed" /\ ChangesPackageJson)
    => /\ call.platformImpact.flags.affectsDependencies
       /\ call.platformImpact.level \in {"medium", "high", "critical"}

(***************************************************************************)
(* Claims about detectIssues, under SpecIssues.                            *)
(***************************************************************************)
\* the text holds the reference #number standing alone: at its start or after
\* a space, and followed by its end or by a space
StandaloneRef(text, number) ==
    \E i \in DOMAIN text :
        /\ text[i] = "#"
        /\ i = 1 \/ text[i - 1] = " "
        /\ i + Len(number) <= Len(text)
        /\ SubSeq(text, i + 1, i + Len(number)) = number
        /\ i + Len(number) = Len(text) \/ text[i + Len(number) + 1] = " "

\* C23: for a title with a standalone reference #123 or #100, and an owner and
\* a repo that are not empty, the result has the entry of type github with id
\* #N and url https://github.com/<owner>/<repo>/issues/N; and in every result
\* the Jira entries come before the GitHub entries.
C23_GitHubIssueDetection ==
    call.returned =>
      /\ \A number \in { <<"1", "2", "3">>, <<"1", "0", "0">> } :
            (StandaloneRef(call.prTitle, number) /\ call.owner # <<>> /\ call.repo # <<>>)
            => \E k \in DOMAIN call.issues :
                  call.issues[k] =
                    [id |-> <<"#">> \o number,
                     url |-> <<"h", "t", "t", "p", "s", ":", "/", "/", "g", "i", "t", "h", "u", "b", ".", "c", "o", "m", "/">> \o call.owner \o <<"/">> \o call.repo
                             \o <<"/", "i", "s", "s", "u", "e", "s", "/">> \o number,
                     type |-> "github"]
      /\ \A i, j \in DOMAIN call.issues :
            (call.issues[i].type = "github" /\ call.issues[j].type = "jira") => j < i

====
